---- MODULE Spec2Model ----
(***************************************************************************)
(* Behavioural analytics engine of the trading-journal backend.            *)
(*                                                                         *)
(* Conventions of the model                                                *)
(*  - JavaScript numbers are exact rationals [n |-> num, d |-> den], d > 0 *)
(*    (operators Rat, RAdd, ...); Math.round is RRound.                    *)
(*  - Percent-like trade fields (riskPercentUsed, riskRewardAchieved,      *)
(*    profitLoss, plan.riskPercentPerTrade, plan.targetRiskRewardRatio)    *)
(*    are integers counting tenths (15 is 1.5); targetPercentAchieved and  *)
(*    all scores are plain integers.                                       *)
(*  - A nullable field is a sequence of length <= 1: << >> is null,        *)
(*    <<v>> is the value v.                                                *)
(*  - Times are minutes since an epoch midnight; a calendar day is         *)
(*    1440 minutes.                                                        *)
(*  - A trade list is a sequence, index 1 first (the services fetch        *)
(*    trades sorted by entryTime descending, i.e. most recent first).      *)
(*  - The analytics functions are applied to the values of `trades`,       *)
(*    `plan` and `input`; the request handlers that write to the database  *)
(*    work on `db` (the collections) and `calls` (the requests in flight,  *)
(*    each with its position between two awaits and its local variables).  *)
(***************************************************************************)
EXTENDS Integers, Sequences, FiniteSets, TLC

VARIABLES trades, plan, input, op, result, db, calls

vars == <<trades, plan, input, op, result, db, calls>>

-----------------------------------------------------------------------------
(* JavaScript values                                                       *)

Null == << >>

Some(v) == <<v>>

IsNull(x) == x = << >>

Val(x) == x[1]

\* JS truthiness of a nullable number: not null/undefined and not 0.
Truthy(x) == x # << >> /\ x[1] # 0

NoPlan == [none |-> TRUE]

NoResult == [none |-> TRUE]

NoInput == [none |-> TRUE]

\* no collection is involved
NoDb == [none |-> TRUE]

\* no request in flight
NoCalls == << >>

RECURSIVE GCD(_, _)
GCD(a, b) == IF b = 0 THEN a ELSE GCD(b, a % b)

Abs(x) == IF x < 0 THEN -x ELSE x

Rat(n, d) ==
  LET s == IF d < 0 THEN -1 ELSE 1
      g == GCD(Abs(n), Abs(d))
  IN [n |-> (s * n) \div g, d |-> (s * d) \div g]

RInt(k) == [n |-> k, d |-> 1]

RAdd(a, b) == Rat(a.n * b.d + b.n * a.d, a.d * b.d)

RSub(a, b) == Rat(a.n * b.d - b.n * a.d, a.d * b.d)

RMul(a, b) == Rat(a.n * b.n, a.d * b.d)

\* a / b for b # 0
RDiv(a, b) == Rat(a.n * b.d, a.d * b.n)

RLt(a, b) == a.n * b.d < b.n * a.d

RLe(a, b) == a.n * b.d <= b.n * a.d

RAbs(a) == [n |-> Abs(a.n), d |-> a.d]

RMax(a, b) == IF RLt(a, b) THEN b ELSE a

RMin(a, b) == IF RLt(b, a) THEN b ELSE a

\* Math.round: the nearest integer, halves rounded up (floor(x + 1/2)).
RRound(a) == (2 * a.n + a.d) \div (2 * a.d)

RECURSIVE SumSeq(_)
SumSeq(s) == IF s = << >> THEN 0 ELSE Head(s) + SumSeq(Tail(s))

\* Array.prototype.slice(from, to) with 0-based from (inclusive), to (exclusive)
Slice(s, from, to) ==
  LET hi == IF to < Len(s) THEN to ELSE Len(s)
  IN IF from >= hi THEN << >> ELSE SubSeq(s, from + 1, hi)

\* arr.filter(P).length
Count(s, P(_)) == Len(SelectSeq(s, P))

\* arr.map(f)
Map(s, F(_)) == [i \in 1..Len(s) |-> F(s[i])]

\* arr.some / arr.every
SomeOf(s, P(_)) == \E i \in 1..Len(s) : P(s[i])

Every(s, P(_)) == \A i \in 1..Len(s) : P(s[i])

\* Insertion of the pair x = <<key, item>> into a list of pairs ascending by
\* key, after every pair whose key is not greater: the step of a stable sort.
RECURSIVE InsertPair(_, _)
InsertPair(x, s) ==
  IF s = << >> THEN <<x>>
  ELSE IF Head(s)[1] <= x[1] THEN <<Head(s)>> \o InsertPair(x, Tail(s))
       ELSE <<x>> \o s

RECURSIVE SortPairs(_)
SortPairs(s) ==
  IF s = << >> THEN << >>
  ELSE InsertPair(s[Len(s)], SortPairs(SubSeq(s, 1, Len(s) - 1)))

\* [...arr].sort((a, b) => Key(a) - Key(b)): ascending and stable
SortBy(s, Key(_)) ==
  LET sorted == SortPairs([i \in 1..Len(s) |-> <<Key(s[i]), s[i]>>])
  IN [i \in 1..Len(s) |-> sorted[i][2]]

EntryKey(t) == t.entryTime

\* [...trades].sort((a, b) => new Date(a.entryTime) - new Date(b.entryTime))
SortByEntry(s) == SortBy(s, EntryKey)

\* new Date(t).toISOString().split('T')[0]: the calendar day of a time
DayKey(time) == time \div 1440

\* new Date(t).getHours()
GetHours(time) == (time % 1440) \div 60

-----------------------------------------------------------------------------
(* utils/computeMedian.js: the median of a sorted list of integers         *)

computeMedian(sortedNumbers) ==
  IF Len(sortedNumbers) = 0 THEN RInt(0)
  ELSE LET midIdx == Len(sortedNumbers) \div 2   \* 0-based
       IN IF Len(sortedNumbers) % 2 = 1
          THEN RInt(sortedNumbers[midIdx + 1])
          ELSE Rat(sortedNumbers[midIdx] + sortedNumbers[midIdx + 1], 2)

-----------------------------------------------------------------------------
(* services/analysis/metrics.js                                            *)

HasRisk(t) == ~IsNull(t.riskPercentUsed)

HasRR(t) == ~IsNull(t.riskRewardAchieved)

HasTarget(t) == ~IsNull(t.targetPercentAchieved)

RiskOf(t) == Val(t.riskPercentUsed)

RROf(t) == Val(t.riskRewardAchieved)

TargetOf(t) == Val(t.targetPercentAchieved)

IsWin(t) == t.profitLoss > 0

Ident(x) == x

\* a mean that takes a missing riskPercentUsed as 0 and divides by the
\* number of all trades
AvgRisk_AllTrades(ts, dflt) ==
  IF Len(ts) > 0
  THEN Rat(SumSeq([i \in 1..Len(ts) |->
                     IF ts[i].riskPercentUsed = << >> THEN 0
                     ELSE ts[i].riskPercentUsed[1]]), Len(ts))
  ELSE dflt

\* mean of the riskPercentUsed of the trades that have one, else `dflt`
AvgRisk(ts, dflt) ==
  LET tradesWithRisk == SelectSeq(ts, HasRisk)
  IN IF Len(tradesWithRisk) > 0
     THEN Rat(SumSeq(Map(tradesWithRisk, RiskOf)), Len(tradesWithRisk))
     ELSE dflt

AvgRR(ts) ==
  LET tradesWithRR == SelectSeq(ts, HasRR)
  IN IF Len(tradesWithRR) > 0
     THEN Rat(SumSeq(Map(tradesWithRR, RROf)), Len(tradesWithRR))
     ELSE RInt(0)

NearTarget(t) == HasTarget(t) /\ TargetOf(t) >= 80

EarlyExit(t) ==
  LET profitableEarly ==
        t.profitLoss > 0 /\ HasTarget(t) /\ TargetOf(t) >= 30 /\ TargetOf(t) <= 80
  IN t.exitedEarly = TRUE \/ profitableEarly

calculateBasicMetrics(ts) ==
  IF Len(ts) = 0
  THEN [winRate |-> RInt(0), avgRiskUsed |-> RInt(0), avgRR |-> RInt(0),
        medianTargetPct |-> RInt(0), nearTargetHits |-> 0, earlyExits |-> 0]
  ELSE LET targetPercents == Map(SelectSeq(ts, HasTarget), TargetOf)
           sortedTargetPercents == SortBy(targetPercents, Ident)
       IN [winRate |-> Rat(Count(ts, IsWin), Len(ts)),
           avgRiskUsed |-> AvgRisk(ts, RInt(0)),
           avgRR |-> AvgRR(ts),
           medianTargetPct |-> computeMedian(sortedTargetPercents),
           nearTargetHits |-> Count(ts, NearTarget),
           earlyExits |-> Count(ts, EarlyExit)]

\* plan.preferredSessions || []
PreferredSessions(p) == p.preferredSessions

\* the set of calendar days on which the list has a trade
TradeDays(ts) == {DayKey(ts[i].entryTime) : i \in 1..Len(ts)}

calculateDayMetrics(ts, p) ==
  LET tradesByDay == [d \in TradeDays(ts) |->
                        Cardinality({i \in 1..Len(ts) : DayKey(ts[i].entryTime) = d})]
      outsideSessionByDay ==
        {DayKey(ts[i].entryTime) : i \in {j \in 1..Len(ts) :
                                      ts[j].session \notin PreferredSessions(p)}}
      \* cnt > (plan.maxTradesPerDay || Infinity)
      exceeds(cnt) == p.maxTradesPerDay # 0 /\ cnt > p.maxTradesPerDay
  IN [daysWithTrades |-> IF Cardinality(TradeDays(ts)) = 0
                         THEN 1 ELSE Cardinality(TradeDays(ts)),
      exceededDays |-> Cardinality({d \in TradeDays(ts) : exceeds(tradesByDay[d])}),
      outsideSessionDays |-> Cardinality(outsideSessionByDay)]

\* planRisk is a rational (tenths of a percent)
calculateRiskSpike(ts, planRisk) ==
  IF Len(ts) = 0 THEN [riskSpike |-> FALSE, last3Breaches |-> 0]
  ELSE LET recentAvgRisk == AvgRisk(ts, planRisk)
           last3 == Slice(ts, 0, 3)
           riskSpikeThreshold == RMax(RMul(planRisk, Rat(13, 10)),
                                      RMul(recentAvgRisk, Rat(13, 10)))
           breach(t) == HasRisk(t) /\ RLt(riskSpikeThreshold, RInt(RiskOf(t)))
           last3Breaches == Count(last3, breach)
       IN [riskSpike |-> last3Breaches >= 2, last3Breaches |-> last3Breaches]

calculateRiskBreaches(ts, planRisk) ==
  LET breach(t) == HasRisk(t) /\ RLt(RMul(planRisk, Rat(3, 2)), RInt(RiskOf(t)))
  IN Count(ts, breach)

-----------------------------------------------------------------------------
(* calculatePlanAdherence (services/tradingPlan.service.js, lines 76-110)  *)

Max(a, b) == IF a > b THEN a ELSE b

Min(a, b) == IF a < b THEN a ELSE b

calculatePlanAdherence(metrics, dayMetrics, totalTrades) ==
  LET riskDiscipline ==
        RSub(RInt(1), Rat(metrics.riskBreaches, Max(1, totalTrades)))
      sessionAdherence ==
        RSub(RInt(1), Rat(dayMetrics.outsideSessionDays, Max(1, dayMetrics.daysWithTrades)))
      tradeCountDiscipline ==
        RSub(RInt(1), Rat(dayMetrics.exceededDays, Max(1, dayMetrics.daysWithTrades)))
      targetProgress ==
        RMin(RInt(1), Rat(metrics.nearTargetHits, Max(1, totalTrades)))
      \* WEIGHTS = { risk: 0.4, session: 0.25, tradeCount: 0.25, target: 0.1 };
      \* none of the four components can be NaN, so all four weights are used
      weightSum == RAdd(RAdd(Rat(4, 10), Rat(25, 100)), RAdd(Rat(25, 100), Rat(1, 10)))
      weighted == RAdd(RAdd(RMul(riskDiscipline, Rat(4, 10)),
                            RMul(sessionAdherence, Rat(25, 100))),
                       RAdd(RMul(tradeCountDiscipline, Rat(25, 100)),
                            RMul(targetProgress, Rat(1, 10))))
      adherenceWeighted == RDiv(weighted, weightSum)
  IN RRound(RMul(adherenceWeighted, RInt(100)))

-----------------------------------------------------------------------------
(* services/analysis/stateDetermination.js                                 *)

Indicator(category, message, severity) ==
  [category |-> category, message |-> message, severity |-> severity]

\* an OVEREXTENDED condition that asks for half of the days
Overextended_Half(dayMetrics) ==
  /\ dayMetrics.daysWithTrades > 0
  /\ \/ RLe(Rat(1, 2), Rat(dayMetrics.exceededDays, dayMetrics.daysWithTrades))
     \/ RLe(Rat(1, 2), Rat(dayMetrics.outsideSessionDays, dayMetrics.daysWithTrades))

\* the OVEREXTENDED condition
Overextended(dayMetrics) ==
  /\ dayMetrics.daysWithTrades > 0
  /\ \/ RLe(Rat(33, 100), Rat(dayMetrics.exceededDays, dayMetrics.daysWithTrades))
     \/ RLe(Rat(33, 100), Rat(dayMetrics.outsideSessionDays, dayMetrics.daysWithTrades))

\* the AGGRESSIVE condition
Aggressive(riskMetrics, planRisk, totalTrades) ==
  \/ riskMetrics.riskSpike
  \/ RLe(Rat(1, 4), Rat(riskMetrics.riskBreaches, Max(1, totalTrades)))
  \/ RLt(RMul(planRisk, Rat(5, 4)), riskMetrics.avgRiskUsed)

\* the HESITANT condition
Hesitant(metrics, totalTrades) ==
  \/ RLe(Rat(4, 10), Rat(metrics.earlyExits, Max(1, totalTrades)))
  \/ /\ RLt(metrics.medianTargetPct, RInt(60))
     /\ RLe(metrics.winRate, Rat(6, 10))

\* a chain that tests the AGGRESSIVE condition before the OVEREXTENDED one
FirstMatch_AggressiveFirst(overextended, aggressive, hesitant) ==
  IF aggressive THEN "AGGRESSIVE"
  ELSE IF overextended THEN "OVEREXTENDED"
  ELSE IF hesitant THEN "HESITANT"
  ELSE "STABLE"

\* if (overextended) ... else if (aggressive) ... else if (hesitant) ... else
FirstMatch(overextended, aggressive, hesitant) ==
  IF overextended THEN "OVEREXTENDED"
  ELSE IF aggressive THEN "AGGRESSIVE"
  ELSE IF hesitant THEN "HESITANT"
  ELSE "STABLE"

\* The indicators carry category, message and severity; their numeric
\* `value` (presentation only) is left out.
determineState(metrics, dayMetrics, riskMetrics, planRisk, totalTrades) ==
  LET state == FirstMatch(Overextended(dayMetrics),
                          Aggressive(riskMetrics, planRisk, totalTrades),
                          Hesitant(metrics, totalTrades))
  IN
  IF state = "OVEREXTENDED"
  THEN [state |-> state,
        indicators |->
          <<Indicator("discipline", "Trading beyond plan boundaries", "warning")>>
          \o (IF dayMetrics.exceededDays > 0
              THEN <<Indicator("frequency", "Exceeded max trades/day", "warning")>>
              ELSE << >>)
          \o (IF dayMetrics.outsideSessionDays > 0
              THEN <<Indicator("session", "Outside preferred sessions (days)", "warning")>>
              ELSE << >>),
        recommendations |-> <<"Respect daily trade cap and stick to planned sessions">>]
  ELSE IF state = "AGGRESSIVE"
  THEN [state |-> state,
        indicators |->
          (IF riskMetrics.riskSpike
           THEN <<Indicator("risk", "Sustained risk elevation (2 of last 3)", "critical")>>
           ELSE << >>)
          \o (IF riskMetrics.riskBreaches > 0
              THEN <<Indicator("risk", "Risk > 1.5x plan detected", "critical")>>
              ELSE << >>)
          \o (IF RLt(RMul(planRisk, Rat(5, 4)), riskMetrics.avgRiskUsed)
              THEN <<Indicator("risk", "Average risk above plan by 25%+", "warning")>>
              ELSE << >>),
        recommendations |->
          <<"Reduce position size to plan level and enforce stop discipline">>]
  ELSE IF state = "HESITANT"
  THEN [state |-> state,
        indicators |->
          (IF metrics.earlyExits > 0
           THEN <<Indicator("execution", "Frequent early exits", "warning")>>
           ELSE << >>)
          \o (IF RLt(metrics.medianTargetPct, RInt(60))
              THEN <<Indicator("targets", "Median target % below 60", "neutral")>>
              ELSE << >>),
        recommendations |->
          <<"Define target rules; practice holding winners and scaling out">>]
  ELSE [state |-> state,
        indicators |->
          <<Indicator("plan", "Trading within plan parameters", "positive")>>
          \o (IF RLe(Rat(6, 10), Rat(metrics.nearTargetHits, Max(1, totalTrades)))
              THEN <<Indicator("targets", "Exits near targets", "positive")>>
              ELSE << >>),
        recommendations |-> <<"Maintain discipline; continue tracking adherence">>]

-----------------------------------------------------------------------------
(* calculateConfidence (confidence.js, kept as unnamed/part_016)           *)

\* a value passed on without the Math.max / Math.min around it
Clamp_None(x, lo, hi) == x

\* Math.max(lo, Math.min(hi, x)) on integers
Clamp(x, lo, hi) == Max(lo, Min(hi, x))

SignalStrength(metrics, planRisk) ==
  RMax(RMax(RAbs(RSub(IF planRisk.n # 0 THEN RDiv(metrics.avgRiskUsed, planRisk)
                                        ELSE RInt(1),
                      RInt(1))),
            RMul(RAbs(RSub(metrics.winRate, Rat(1, 2))), RInt(2))),
       RAbs(RSub(RDiv(metrics.medianTargetPct, RInt(100)), Rat(6, 10))))

\* a confidence that is left as computed whatever the sample size
SmallSampleCap_None(confidence, totalTrades) == confidence

\* if (totalTrades < 5) confidence = Math.min(confidence, 40)
SmallSampleCap(confidence, totalTrades) ==
  IF totalTrades < 5 THEN Min(confidence, 40) ELSE confidence

calculateConfidence(metrics, planAdherence, planRisk, totalTrades) ==
  LET sampleFactor == Rat(Min(totalTrades, 10), 10)
      discipline == Rat(planAdherence, 100)
      signalStrength == SignalStrength(metrics, planRisk)
      raw == RRound(RMul(RInt(100),
                         RAdd(RAdd(RMul(Rat(1, 2), discipline),
                                   RMul(Rat(3, 10), sampleFactor)),
                              RMul(Rat(2, 10), signalStrength))))
      confidence == Clamp(raw, 10, 95)
  IN SmallSampleCap(confidence, totalTrades)

-----------------------------------------------------------------------------
(* analyzePsychologicalState (services/analysis/performanceInsights.js,    *)
(* lines 135-210)                                                          *)

\* plan.riskPercentPerTrade || 0, as a rational
PlanRisk(p) == RInt(p.riskPercentPerTrade)

\* a fallback result that reports the small-sample confidence cap
InsufficientData_Capped ==
  [state |-> "STABLE",
   confidence |-> 40,
   planAdherence |-> 50,
   analyzedTradeCount |-> 0,
   indicators |->
     <<Indicator("data", "Insufficient data to analyze state", "neutral")>>,
   recommendations |->
     <<"Record trades and set a trading plan to enable analysis">>]

\* the result returned when (!trades.length || !plan)
InsufficientData ==
  [state |-> "STABLE",
   confidence |-> 50,
   planAdherence |-> 50,
   analyzedTradeCount |-> 0,
   indicators |->
     <<Indicator("data", "Insufficient data to analyze state", "neutral")>>,
   recommendations |->
     <<"Record trades and set a trading plan to enable analysis">>]

analyzePsychologicalState(ts, p) ==
  IF Len(ts) = 0 \/ p = NoPlan
  THEN InsufficientData
  ELSE LET analyzedTrades == Slice(ts, 0, 10)
           totalTrades == Len(analyzedTrades)
           planRisk == PlanRisk(p)
           basicMetrics == calculateBasicMetrics(analyzedTrades)
           dayMetrics == calculateDayMetrics(analyzedTrades, p)
           riskSpikeData == calculateRiskSpike(analyzedTrades, planRisk)
           riskBreaches == calculateRiskBreaches(analyzedTrades, planRisk)
           riskMetrics == [riskSpike |-> riskSpikeData.riskSpike,
                           last3Breaches |-> riskSpikeData.last3Breaches,
                           riskBreaches |-> riskBreaches,
                           avgRiskUsed |-> basicMetrics.avgRiskUsed]
           planAdherence ==
             \* { ...basicMetrics, riskBreaches }
             calculatePlanAdherence(basicMetrics @@ ("riskBreaches" :> riskBreaches),
                                    dayMetrics, totalTrades)
           st == determineState(basicMetrics, dayMetrics, riskMetrics, planRisk, totalTrades)
           confidence == calculateConfidence(basicMetrics, planAdherence, planRisk, totalTrades)
       IN [state |-> st.state,
           confidence |-> confidence,
           planAdherence |-> planAdherence,
           analyzedTradeCount |-> totalTrades,
           indicators |-> st.indicators,
           recommendations |-> st.recommendations]

-----------------------------------------------------------------------------
(* services/zentra/planControl.js, first part: plan control                *)

\* plan?.riskPercentPerTrade || 1 (tenths of a percent)
PlanRiskOr1(p) ==
  IF p = NoPlan \/ p.riskPercentPerTrade = 0 THEN 10 ELSE p.riskPercentPerTrade

\* plan?.targetRiskRewardRatio || 1 (tenths)
TargetRROr1(p) ==
  IF p = NoPlan \/ p.targetRiskRewardRatio = 0 THEN 10 ELSE p.targetRiskRewardRatio

\* plan?.preferredSessions || []
SessionsOr(p) == IF p = NoPlan THEN {} ELSE p.preferredSessions

\* (entry - previous exit) / (1000 * 60)
DiffMinutes(trade, previousTrade) == trade.entryTime - previousTrade.exitTime

isInAllowedSession(trade, preferredSessions) ==
  preferredSessions = {} \/ trade.session \in preferredSessions

\* null >= 80 is false; a riskRewardAchieved of 0 or null is falsy
hasProperSlTp(trade, targetRR) ==
  \/ trade.stopLossHit = FALSE /\ HasTarget(trade) /\ TargetOf(trade) >= 80
  \/ Truthy(trade.riskRewardAchieved) /\ RROf(trade) >= targetRR

hasCorrectPositionSize(trade, planRisk) ==
  /\ Truthy(trade.riskPercentUsed)
  /\ planRisk # 0
  /\ 10 * RiskOf(trade) >= 9 * planRisk
  /\ 10 * RiskOf(trade) <= 11 * planRisk

hasNotes(trade) == Len(trade.notes) > 0

\* previousTrade is << >> (null) or <<trade>>
hasTimingDiscipline(trade, previousTrade) ==
  previousTrade = << >> \/ DiffMinutes(trade, previousTrade[1]) >= 30

\* the score of calculateTradeScore (its breakdown list is left out)
calculateTradeScore(trade, p, previousTrade) ==
  (IF isInAllowedSession(trade, SessionsOr(p)) THEN 20 ELSE 0)
  + (IF hasProperSlTp(trade, TargetRROr1(p)) THEN 30 ELSE 0)
  + (IF hasCorrectPositionSize(trade, PlanRiskOr1(p)) THEN 25 ELSE 0)
  + (IF hasNotes(trade) THEN 10 ELSE 0)
  + (IF hasTimingDiscipline(trade, previousTrade) THEN 15 ELSE 0)

\* sum of calculateTradeScore over a list sorted by entry time, each trade
\* with its predecessor
TotalScore(sortedTrades, p) ==
  SumSeq([i \in 1..Len(sortedTrades) |->
            calculateTradeScore(sortedTrades[i], p,
                                IF i > 1 THEN <<sortedTrades[i - 1]>> ELSE << >>)])

calculatePlanControl(ts, p) ==
  IF Len(ts) = 0
  THEN [percentage |-> 0, tradesAnalyzed |-> 0]
  ELSE LET recentTrades == Slice(ts, 0, 5)
           sortedTrades == SortByEntry(recentTrades)
       IN [percentage |-> RRound(Rat(TotalScore(sortedTrades, p), Len(sortedTrades))),
           tradesAnalyzed |-> Len(sortedTrades)]

-----------------------------------------------------------------------------
(* services/zentra/planControl.js, second part: mental battery             *)

isImpulsiveReentry(trade, previousTrade) ==
  DiffMinutes(trade, previousTrade) < 30 /\ DiffMinutes(trade, previousTrade) >= 0

\* number of trades of a list sorted by entry time that enter less than 30
\* minutes after the previous trade's exit
ImpulsiveCount(sortedTrades) ==
  Cardinality({i \in 2..Len(sortedTrades) :
                 isImpulsiveReentry(sortedTrades[i], sortedTrades[i - 1])})

isOversizedTrade(trade, planRisk) ==
  Truthy(trade.riskPercentUsed) /\ planRisk # 0 /\ 10 * RiskOf(trade) > 13 * planRisk

isLargeLoss(trade, planRisk) == planRisk # 0 /\ trade.profitLoss < -2 * planRisk

\* The inner loop counts the trades from i on that enter within 2 hours of
\* trade i and stops at the first that does not; in a sorted list the count
\* reaches 3 exactly when trade i + 2 is within the 2 hours.
detectClusters_Uncapped(ts) ==
  IF Len(ts) < 3 THEN 0
  ELSE LET sortedTrades == SortByEntry(ts)
       IN Cardinality({i \in 1..(Len(ts) - 2) :
            sortedTrades[i + 2].entryTime - sortedTrades[i].entryTime <= 120})

detectClusters(ts) ==
  IF Len(ts) < 3 THEN 0
  ELSE LET sortedTrades == SortByEntry(ts)
       IN Min(2, Cardinality({i \in 1..(Len(ts) - 2) :
                 sortedTrades[i + 2].entryTime - sortedTrades[i].entryTime <= 120}))

detectDisciplinedPauses(ts) ==
  IF Len(ts) < 2 THEN 0
  ELSE LET sortedTrades == SortByEntry(ts)
       IN Min(3, Cardinality({i \in 2..Len(ts) :
                 DiffMinutes(sortedTrades[i], sortedTrades[i - 1]) >= 120}))

hasStableRiskUsage(ts, planRisk) ==
  /\ Len(ts) > 0
  /\ planRisk # 0
  /\ \A i \in 1..Len(ts) :
       /\ Truthy(ts[i].riskPercentUsed)
       /\ 10 * RiskOf(ts[i]) >= 9 * planRisk
       /\ 10 * RiskOf(ts[i]) <= 11 * planRisk

hasEmotionalVolatility(ts) ==
  /\ Len(ts) >= 2
  /\ ImpulsiveCount(SortByEntry(ts)) > 0
  /\ \E i \in 1..Len(ts) :
       \/ ts[i].exitedEarly
       \/ Truthy(ts[i].targetPercentAchieved) /\ TargetOf(ts[i]) < 60

calculateMentalBattery(todayTrades, p, planControlPercent) ==
  IF Len(todayTrades) = 0
  THEN [battery |-> 100, status |-> "optimal", tradesAnalyzed |-> 0]
  ELSE LET planRisk == PlanRiskOr1(p)
           sortedTrades == SortByEntry(todayTrades)
           oversized(t) == isOversizedTrade(t, planRisk)
           largeLoss(t) == isLargeLoss(t, planRisk)
           drained == 100 - 15 * ImpulsiveCount(sortedTrades)
                          - 10 * Count(sortedTrades, oversized)
                          - 8 * detectClusters(sortedTrades)
                          - 20 * Count(sortedTrades, largeLoss)
                          - (IF hasEmotionalVolatility(sortedTrades) THEN 12 ELSE 0)
           recharged == drained
                          + Min(detectDisciplinedPauses(sortedTrades) * 5, 15)
                          + (IF planControlPercent >= 80 THEN 8 ELSE 0)
                          + (IF hasStableRiskUsage(sortedTrades, planRisk) THEN 5 ELSE 0)
           battery == Clamp(recharged, 0, 100)
       IN [battery |-> battery,
           status |-> IF battery >= 80 THEN "optimal"
                      ELSE IF battery >= 50 THEN "strained" ELSE "high_risk",
           tradesAnalyzed |-> Len(sortedTrades)]

-----------------------------------------------------------------------------
(* services/zentra/psychologicalRadar.js, first part: the radar            *)

\* the truthy riskPercentUsed values of a list
RisksUsed(ts) == Map(SelectSeq(ts, LAMBDA t : Truthy(t.riskPercentUsed)), RiskOf)

RECURSIVE SumSquares(_)
SumSquares(s) == IF s = << >> THEN 0 ELSE Head(s) * Head(s) + SumSquares(Tail(s))

\* variance of a non-empty list of integers:
\* sum((v - mean)^2) / n = (n * sum(v^2) - sum(v)^2) / n^2
Variance(vs) ==
  Rat(Len(vs) * SumSquares(vs) - SumSeq(vs) * SumSeq(vs), Len(vs) * Len(vs))

\* Math.round(s - Math.sqrt(q)) for an integer s >= 0 and a rational q >= 0,
\* every negative outcome given as -1: the greatest k with
\* sqrt(q) <= s + 1/2 - k
RoundMinusSqrt(s, q) ==
  LET ks == {k \in 0..s : 4 * q.n <= (2 * s + 1 - 2 * k) * (2 * s + 1 - 2 * k) * q.d}
  IN IF ks = {} THEN -1 ELSE CHOOSE k \in ks : \A j \in ks : j <= k

\* Math.round(Math.min(Math.sqrt(q), hi)) for a rational q >= 0: the
\* greatest k <= hi with k - 1/2 <= sqrt(q)
RoundSqrtCapped(q, hi) ==
  LET ks == {k \in 0..hi : k = 0 \/ (2 * k - 1) * (2 * k - 1) * q.d <= 4 * q.n}
  IN CHOOSE k \in ks : \A j \in ks : j <= k

calculateDiscipline(ts, p, planControlPercent) ==
  LET planRisk == PlanRiskOr1(p)
      preferredSessions == SessionsOr(p)
      hasRiskBreach ==
        \E i \in 1..Len(ts) :
          Truthy(ts[i].riskPercentUsed) /\ 10 * RiskOf(ts[i]) > 13 * planRisk
      hasSessionViolation ==
        /\ preferredSessions # {}
        /\ \E i \in 1..Len(ts) : ts[i].session \notin preferredSessions
  IN Min(100, planControlPercent + (IF ~hasRiskBreach THEN 10 ELSE 0)
                                 + (IF ~hasSessionViolation THEN 5 ELSE 0))

calculateImpulseControl(ts) ==
  IF Len(ts) < 2 THEN 100
  ELSE LET impulsiveCount == ImpulsiveCount(SortByEntry(ts))
       IN Max(0, RRound(RSub(RInt(100), RMul(Rat(impulsiveCount, 5), RInt(100)))))

calculateAggression(ts, p) ==
  IF Len(ts) = 0 THEN 0
  ELSE LET planRisk == PlanRiskOr1(p)
           risksUsed == RisksUsed(ts)
           sortedTrades == SortByEntry(ts)
           avgBase == IF Len(risksUsed) > 0
                      THEN RMul(RDiv(Rat(SumSeq(risksUsed), Len(risksUsed)),
                                     RInt(planRisk)), RInt(50))
                      ELSE RInt(0)
           hasHighRisk ==
             \E i \in 1..Len(ts) :
               Truthy(ts[i].riskPercentUsed) /\ 10 * RiskOf(ts[i]) > 15 * planRisk
           hasRevengeTrade ==
             \E i \in 2..Len(sortedTrades) :
               /\ sortedTrades[i - 1].profitLoss < 0
               /\ Truthy(sortedTrades[i].riskPercentUsed)
               /\ 10 * RiskOf(sortedTrades[i]) > 13 * planRisk
           base == RAdd(avgBase, RInt((IF hasHighRisk THEN 20 ELSE 0)
                                      + (IF hasRevengeTrade THEN 15 ELSE 0)))
       IN Min(100, RRound(base))

calculateHesitation(ts) ==
  IF Len(ts) = 0 THEN 0
  ELSE LET hesitationCount == Count(ts, LAMBDA t : t.exitedEarly)
           sortedTrades == SortByEntry(ts)
           hasLowTargetWins ==
             \E i \in 1..Len(ts) :
               /\ ts[i].profitLoss > 0
               /\ Truthy(ts[i].targetPercentAchieved)
               /\ TargetOf(ts[i]) < 60
           \* diffHours > 4
           hasLongGap ==
             \E i \in 2..Len(sortedTrades) :
               DiffMinutes(sortedTrades[i], sortedTrades[i - 1]) > 240
           base == RAdd(RMul(Rat(hesitationCount, 5), RInt(100)),
                        RInt((IF hasLowTargetWins THEN 20 ELSE 0)
                             + (IF hasLongGap THEN 15 ELSE 0)))
       IN Min(100, RRound(base))

calculateConsistency(ts, p) ==
  IF Len(ts) = 0 THEN 100
  ELSE LET preferredSessions == SessionsOr(p)
           risksUsed == RisksUsed(ts)
           sortedTrades == SortByEntry(ts)
           \* variability^2 = (stdDev / avgRisk * 100)^2
           variabilitySq ==
             IF Len(risksUsed) > 1 /\ SumSeq(risksUsed) > 0
             THEN RDiv(RMul(RInt(10000), Variance(risksUsed)),
                       RMul(Rat(SumSeq(risksUsed), Len(risksUsed)),
                            Rat(SumSeq(risksUsed), Len(risksUsed))))
             ELSE RInt(0)
           allInPreferred ==
             preferredSessions = {}
               \/ \A i \in 1..Len(ts) : ts[i].session \in preferredSessions
           \* diffHours < 0.5 || diffHours > 6 breaks the stable timing
           stableTiming ==
             \A i \in 2..Len(sortedTrades) :
               /\ DiffMinutes(sortedTrades[i], sortedTrades[i - 1]) >= 30
               /\ DiffMinutes(sortedTrades[i], sortedTrades[i - 1]) <= 360
           bonus == (IF allInPreferred THEN 10 ELSE 0)
                    + (IF stableTiming /\ Len(ts) > 1 THEN 5 ELSE 0)
       IN Clamp(RoundMinusSqrt(100 + bonus, variabilitySq), 0, 100)

\* a volatility that is the whole difference of the two scores
calculateEmotionalVolatility_Undivided(aggressionScore, hesitationScore) ==
  LET volatility ==
        RAdd(RInt(Abs(aggressionScore - hesitationScore)),
             RInt(IF aggressionScore > 60 /\ hesitationScore > 60 THEN 20 ELSE 0))
  IN Min(100, RRound(volatility))

calculateEmotionalVolatility(aggressionScore, hesitationScore) ==
  LET volatility ==
        RAdd(Rat(Abs(aggressionScore - hesitationScore), 2),
             RInt(IF aggressionScore > 60 /\ hesitationScore > 60 THEN 20 ELSE 0))
  IN Min(100, RRound(volatility))

calculatePsychologicalRadar(ts, p) ==
  IF Len(ts) = 0
  THEN [traits |-> [discipline |-> 0, impulseControl |-> 100, aggression |-> 0,
                    hesitation |-> 0, consistency |-> 100, emotionalVolatility |-> 0],
        tradesAnalyzed |-> 0]
  ELSE LET recentTrades == Slice(ts, 0, 5)
           planControlPercent == calculatePlanControl(recentTrades, p).percentage
           aggression == calculateAggression(recentTrades, p)
           hesitation == calculateHesitation(recentTrades)
       IN [traits |->
             [discipline |-> calculateDiscipline(recentTrades, p, planControlPercent),
              impulseControl |-> calculateImpulseControl(recentTrades),
              aggression |-> aggression,
              hesitation |-> hesitation,
              consistency |-> calculateConsistency(recentTrades, p),
              emotionalVolatility |-> calculateEmotionalVolatility(aggression, hesitation)],
           tradesAnalyzed |-> Len(recentTrades)]

-----------------------------------------------------------------------------
(* services/zentra/psychologicalRadar.js, second part: behaviour heatmap   *)

TIME_WINDOWS ==
  << [id |-> "00-03", startHour |-> 0, endHour |-> 3],
     [id |-> "03-06", startHour |-> 3, endHour |-> 6],
     [id |-> "06-09", startHour |-> 6, endHour |-> 9],
     [id |-> "09-12", startHour |-> 9, endHour |-> 12],
     [id |-> "12-15", startHour |-> 12, endHour |-> 15],
     [id |-> "15-18", startHour |-> 15, endHour |-> 18],
     [id |-> "18-21", startHour |-> 18, endHour |-> 21],
     [id |-> "21-24", startHour |-> 21, endHour |-> 24] >>

\* the id of the window the trade's entry hour falls in (every hour 0..23
\* falls in exactly one)
getTimeWindow(trade) ==
  LET entryHour == GetHours(trade.entryTime)
      w == CHOOSE i \in 1..Len(TIME_WINDOWS) :
             entryHour >= TIME_WINDOWS[i].startHour /\ entryHour < TIME_WINDOWS[i].endHour
  IN TIME_WINDOWS[w].id

calculateWinLossExpectancy(ts) ==
  IF Len(ts) = 0 THEN RInt(50)
  ELSE LET wins == Count(ts, LAMBDA t : t.profitLoss > 0)
           losses == Count(ts, LAMBDA t : t.profitLoss < 0)
           expectancy == RAdd(RMul(Rat(wins - losses, Len(ts)), RInt(50)), RInt(50))
       IN RMax(RInt(0), RMin(RInt(100), expectancy))

calculateWindowPlanCompliance(ts, p) ==
  IF Len(ts) = 0 THEN 50
  ELSE RRound(Rat(TotalScore(SortByEntry(ts), p), Len(ts)))

calculateImpulsivenessPenalty(ts) ==
  IF Len(ts) < 2 THEN 0 ELSE Min(ImpulsiveCount(SortByEntry(ts)) * 15, 100)

calculateHesitationPenalty(ts) ==
  LET hesitant(t) ==
        \/ t.exitedEarly
        \/ /\ Truthy(t.targetPercentAchieved)
           /\ TargetOf(t) < 60
           /\ t.profitLoss > 0
  IN IF Len(ts) = 0 THEN 0 ELSE Min(Count(ts, hesitant) * 10, 100)

\* Math.round(Math.min((stdDev / planRisk) * 50, 100))
calculateRiskDeviationPenalty(ts, planRisk) ==
  LET risksUsed == RisksUsed(ts)
  IN IF Len(ts) = 0 \/ planRisk = 0 \/ Len(risksUsed) = 0 THEN 0
     ELSE RoundSqrtCapped(RDiv(RMul(RInt(2500), Variance(risksUsed)),
                               RInt(planRisk * planRisk)), 100)

calculateVolatilityPenalty(ts, planRisk) ==
  LET hasOversized ==
        \E i \in 1..Len(ts) :
          Truthy(ts[i].riskPercentUsed) /\ 10 * RiskOf(ts[i]) > 13 * planRisk
      hasUndersized ==
        \E i \in 1..Len(ts) :
          Truthy(ts[i].riskPercentUsed) /\ 10 * RiskOf(ts[i]) < 7 * planRisk
  IN IF Len(ts) < 2 \/ planRisk = 0 THEN 0
     ELSE IF hasOversized /\ hasUndersized THEN 20 ELSE 0

calculateFrequencyPenalty(ts) ==
  IF Len(ts) <= 3 THEN 0 ELSE Min((Len(ts) - 3) * 5, 25)

\* the score of calculateWindowScore (its rounded metrics are left out)
calculateWindowScore(ts, p) ==
  LET planRisk == PlanRiskOr1(p)
      part(x, num, den) == RMul(x, Rat(num, den))
      score ==
        RAdd(RAdd(RAdd(part(calculateWinLossExpectancy(ts), 2, 10),
                       part(RInt(calculateWindowPlanCompliance(ts, p)), 3, 10)),
                  RAdd(part(RInt(100 - calculateImpulsivenessPenalty(ts)), 15, 100),
                       part(RInt(100 - calculateHesitationPenalty(ts)), 15, 100))),
             RAdd(RAdd(part(RInt(100 - calculateRiskDeviationPenalty(ts, planRisk)), 1, 10),
                       part(RInt(100 - calculateVolatilityPenalty(ts, planRisk)), 5, 100)),
                  part(RInt(100 - calculateFrequencyPenalty(ts)), 5, 100)))
  IN RRound(RMax(RInt(0), RMin(RInt(100), score)))

\* a colour that is green from 40 up
getColorStatus_GreenFrom40(score) ==
  IF score >= 40 THEN "green" ELSE IF score >= 70 THEN "yellow" ELSE "red"

getColorStatus(score) ==
  IF score >= 70 THEN "green" ELSE IF score >= 40 THEN "yellow" ELSE "red"

\* score is << >> (null) or <<number>>
calculateBehaviorHeatmap(ts, p) ==
  [windows |->
     [w \in 1..Len(TIME_WINDOWS) |->
        LET windowTrades ==
              SelectSeq(ts, LAMBDA t : getTimeWindow(t) = TIME_WINDOWS[w].id)
        IN IF Len(windowTrades) = 0
           THEN [id |-> TIME_WINDOWS[w].id, score |-> Null, color |-> "grey",
                 tradeCount |-> 0]
           ELSE [id |-> TIME_WINDOWS[w].id,
                 score |-> Some(calculateWindowScore(windowTrades, p)),
                 color |-> getColorStatus(calculateWindowScore(windowTrades, p)),
                 tradeCount |-> Len(windowTrades)]],
   totalTrades |-> Len(ts)]

-----------------------------------------------------------------------------
(* services/zentra/consistencyTrend.js, last part: breathwork suggestion   *)

\* `now` is Date.now() in minutes
countImpulsiveTradesLastHour(ts, now) ==
  IF Len(ts) < 2 THEN 0
  ELSE LET oneHourAgo == now - 60
           sortedTrades ==
             SortByEntry(SelectSeq(ts, LAMBDA t : t.entryTime >= oneHourAgo))
       IN IF Len(sortedTrades) < 2 THEN 0 ELSE ImpulsiveCount(sortedTrades)

\* a drop measured from the current battery up to the start battery
calculateBatteryDrop_Reversed(startBattery, currentBattery) ==
  Max(0, currentBattery - startBattery)

calculateBatteryDrop(startBattery, currentBattery) ==
  Max(0, startBattery - currentBattery)

\* triggers is the list of the trigger types
calculateUrgency(triggers, mentalBattery, emotionalVolatility) ==
  IF Len(triggers) = 0 THEN [level |-> "none", score |-> 0]
  ELSE LET severe(t) == t \in {"low_battery", "high_volatility", "battery_drop"}
           hasMultipleSevere == Count(triggers, severe) >= 2
           urgencyScore ==
             Len(triggers) * 20
             + (IF mentalBattery < 30 THEN 30
                ELSE IF mentalBattery < 40 THEN 15 ELSE 0)
             + (IF emotionalVolatility > 80 THEN 25
                ELSE IF emotionalVolatility > 70 THEN 10 ELSE 0)
             + (IF hasMultipleSevere THEN 20 ELSE 0)
       IN [level |-> IF urgencyScore >= 70 THEN "high"
                     ELSE IF urgencyScore >= 40 THEN "medium" ELSE "low",
           score |-> Min(100, urgencyScore)]

\* sessionStartBattery is << >> when the caller leaves it out (default 100);
\* the message and the recommended exercise are left out of the result
shouldSuggestBreathwork(mentalBattery, emotionalVolatility, todayTrades, sessionStartBattery, now) ==
  LET startBattery == IF sessionStartBattery = << >> THEN 100
                      ELSE sessionStartBattery[1]
      impulsiveCount == countImpulsiveTradesLastHour(todayTrades, now)
      batteryDrop == calculateBatteryDrop(startBattery, mentalBattery)
      triggers ==
        (IF emotionalVolatility > 70 THEN <<"high_volatility">> ELSE << >>)
        \o (IF mentalBattery < 40 THEN <<"low_battery">> ELSE << >>)
        \o (IF impulsiveCount >= 3 THEN <<"impulsive_trades">> ELSE << >>)
        \o (IF batteryDrop > 30 THEN <<"battery_drop">> ELSE << >>)
  IN [shouldSuggest |-> Len(triggers) > 0,
      urgency |-> calculateUrgency(triggers, mentalBattery, emotionalVolatility),
      triggers |-> triggers]

-----------------------------------------------------------------------------
(* services/zentra/performanceWindow.js                                    *)

IMPROVEMENTS ==
  << [id |-> "avoided_revenge", priority |-> 1,
      message |->
        "You treated losses as information, not a signal to act. By stepping back instead of chasing recovery, you maintained emotional balance and allowed discipline to guide your next decision.",
      description |-> "No revenge trades detected after losses"],
     [id |-> "stable_risk", priority |-> 2,
      message |->
        "You respected your predefined risk limits across all trades, keeping position sizing and exposure consistent. This kind of risk discipline allows your edge to play out over time without unnecessary drawdowns.",
      description |-> "All trades within planned risk parameters"],
     [id |-> "no_impulsive", priority |-> 3,
      message |->
        "Trades were spaced with intention, allowing enough time between decisions to reset mentally. This helped prevent emotionally driven re-entries and kept execution aligned with logic rather than impulse.",
      description |-> "No impulsive re-entries detected"],
     [id |-> "improved_plan_control", priority |-> 4,
      message |->
        "Your recent executions show stronger alignment with your trading plan compared to previous sessions. This suggests growing consistency between what you intend to do and what you actually execute in the market.",
      description |-> "Plan compliance improved vs previous trades"],
     [id |-> "no_hesitation", priority |-> 5,
      message |->
        "When trades moved in your favour, you allowed them the space to develop instead of exiting early. This reflects increased comfort with open profit and reduced fear of giving gains back.",
      description |-> "No early exits on winning trades"],
     [id |-> "consistent_timing", priority |-> 6,
      message |->
        "Your trade timing remained well-paced, avoiding clusters of back-to-back executions. This rhythm supports clearer thinking, lowers mental fatigue, and reduces the likelihood of overtrading.",
      description |-> "Trades spaced 1-4 hours apart"] >>

\* IMPROVEMENTS.find((i) => i.id === id)
FindImprovement(id) ==
  IMPROVEMENTS[CHOOSE k \in 1..Len(IMPROVEMENTS) :
                 /\ IMPROVEMENTS[k].id = id
                 /\ \A j \in 1..(k - 1) : IMPROVEMENTS[j].id # id]

\* planRisk in tenths; a riskPercentUsed of 0 or null is falsy
checkAvoidedRevenge(ts, planRisk) ==
  IF Len(ts) < 2 THEN TRUE
  ELSE LET sortedTrades == SortByEntry(ts)
       IN ~ \E i \in 2..Len(sortedTrades) :
              /\ sortedTrades[i - 1].profitLoss < 0
              /\ Truthy(sortedTrades[i].riskPercentUsed)
              /\ 10 * RiskOf(sortedTrades[i]) > 13 * planRisk

checkStableRisk(ts, planRisk) ==
  IF Len(ts) = 0 \/ planRisk = 0 THEN FALSE
  ELSE \A i \in 1..Len(ts) :
         /\ Truthy(ts[i].riskPercentUsed)
         /\ 10 * RiskOf(ts[i]) >= 9 * planRisk
         /\ 10 * RiskOf(ts[i]) <= 11 * planRisk

checkNoImpulsive(ts) ==
  IF Len(ts) < 2 THEN TRUE
  ELSE LET sortedTrades == SortByEntry(ts)
       IN ~ \E i \in 2..Len(sortedTrades) :
              /\ DiffMinutes(sortedTrades[i], sortedTrades[i - 1]) < 30
              /\ DiffMinutes(sortedTrades[i], sortedTrades[i - 1]) >= 0

\* previousPlanControl is << >> (null or undefined) or <<percentage>>
checkImprovedPlanControl(currentPlanControl, previousPlanControl) ==
  IF previousPlanControl = << >> THEN FALSE
  ELSE currentPlanControl > previousPlanControl[1]

checkNoHesitation(ts) == \A i \in 1..Len(ts) : ~ ts[i].exitedEarly

\* diffHours < 1 || diffHours > 4, in minutes
checkConsistentTiming(ts) ==
  IF Len(ts) < 2 THEN TRUE
  ELSE LET sortedTrades == SortByEntry(ts)
       IN ~ \E i \in 2..Len(sortedTrades) :
              \/ DiffMinutes(sortedTrades[i], sortedTrades[i - 1]) < 60
              \/ DiffMinutes(sortedTrades[i], sortedTrades[i - 1]) > 240

\* a sort key that puts the largest priority number first
PriorityKey_Descending(i) == 0 - i.priority

\* (a, b) => a.priority - b.priority
PriorityKey(i) == i.priority

\* message and description are << >> (null) or <<string>>
getPerformanceWindow(ts, p, currentPlanControl, previousPlanControl) ==
  IF Len(ts) = 0
  THEN [hasImprovement |-> FALSE, message |-> Null, description |-> Null,
        tradesAnalyzed |-> 0, improvements |-> << >>]
  ELSE LET planRisk == PlanRiskOr1(p)
           pushed ==
             (IF checkAvoidedRevenge(ts, planRisk)
              THEN <<FindImprovement("avoided_revenge")>> ELSE << >>)
             \o (IF checkStableRisk(ts, planRisk)
                 THEN <<FindImprovement("stable_risk")>> ELSE << >>)
             \o (IF checkNoImpulsive(ts)
                 THEN <<FindImprovement("no_impulsive")>> ELSE << >>)
             \o (IF checkImprovedPlanControl(currentPlanControl, previousPlanControl)
                 THEN <<FindImprovement("improved_plan_control")>> ELSE << >>)
             \o (IF checkNoHesitation(ts)
                 THEN <<FindImprovement("no_hesitation")>> ELSE << >>)
             \o (IF checkConsistentTiming(ts)
                 THEN <<FindImprovement("consistent_timing")>> ELSE << >>)
           detectedImprovements == SortBy(pushed, PriorityKey)
       IN [hasImprovement |-> Len(detectedImprovements) > 0,
           message |-> IF Len(detectedImprovements) = 0 THEN Null
                       ELSE Some(detectedImprovements[1].message),
           description |-> IF Len(detectedImprovements) = 0 THEN Null
                           ELSE Some(detectedImprovements[1].description),
           tradesAnalyzed |-> Len(ts),
           improvements |->
             [k \in 1..Len(detectedImprovements) |->
                [id |-> detectedImprovements[k].id,
                 message |-> detectedImprovements[k].message,
                 description |-> detectedImprovements[k].description]]]

-----------------------------------------------------------------------------
(* utils/dateRange.js and services/analysis/performanceInsights.js         *)

\* The number of days setDate / setMonth / setFullYear move the start back
\* from now: it depends on the calendar date of the request.
PeriodDays(period) ==
  CASE period = "WEEK" -> {7}
    [] period = "MONTH" -> 28..31
    [] period = "QUARTER" -> 89..92
    [] period = "YEAR" -> {365, 366}
    [] OTHER -> 28..31

\* days is one of PeriodDays(period); times in minutes
getDateRange(now, days) == [start |-> now - days * 1440, end |-> now]

Insight(type, title, description, label, value) ==
  [type |-> type, title |-> title, description |-> description,
   metric |-> [label |-> label, value |-> value]]

\* p is NoPlan when there is no plan; avgRiskReward is in hundredths;
\* Percent(n) is the template string `${n}%`
analyzePerformanceInsights(ts, p, period, now) ==
  IF Len(ts) = 0 \/ p = NoPlan
  THEN [period |-> period,
        insights |->
          <<Insight("CONSTRUCTIVE", "Add data to unlock insights",
                    "Record trades and set a plan to generate meaningful feedback",
                    "Trades analyzed", 0)>>,
        stats |-> [winRate |-> 0, avgRiskReward |-> 0, planAdherence |-> 0,
                   tradesThisWeek |-> 0],
        recommendations |->
          <<"Start with a small set of trades (5-10) to calibrate">>]
  ELSE LET Percent(n) == <<n, "%">>
           IsPositive(i) == i.type = "POSITIVE"
           IsConstructive(i) == i.type = "CONSTRUCTIVE"
           InsightDescription(i) == i.description
           totalTrades == Len(ts)
           wins == Count(ts, IsWin)
           winRate == RRound(Rat(wins * 100, totalTrades))
           avgRR == RRound(RMul(AvgRR(ts), RInt(10)))
           breach(t) == HasRisk(t) /\ 10 * RiskOf(t) > 15 * p.riskPercentPerTrade
           outside(t) == t.session \notin p.preferredSessions
           riskBreachesRatio == Rat(Count(ts, breach), totalTrades)
           outsideSessionRatio == Rat(Count(ts, outside), totalTrades)
           planAdherence ==
             RRound(RMul(RDiv(RAdd(RSub(RInt(1), riskBreachesRatio),
                                   RSub(RInt(1), outsideSessionRatio)),
                              RInt(2)),
                         RInt(100)))
           thisWeek(t) == t.entryTime >= now - 7 * 1440
           tradesThisWeek == Count(ts, thisWeek)
           positive ==
             IF planAdherence >= 70
             THEN <<Insight("POSITIVE", "Strong plan adherence",
                            "You are trading within your rules. Keep it up.",
                            "Plan adherence", Percent(planAdherence))>>
             ELSE IF winRate >= 60
             THEN <<Insight("POSITIVE", "Solid win rate",
                            "Your recent outcomes are favorable without overtrading.",
                            "Win rate", Percent(winRate))>>
             ELSE << >>
           early(t) == t.exitedEarly \/ (HasTarget(t) /\ TargetOf(t) < 50)
           earlyExits == Count(ts, early)
           constructive ==
             IF 10 * earlyExits >= 3 * totalTrades
             THEN <<Insight("CONSTRUCTIVE", "Exiting too early",
                            "Consider scaling out or letting winners reach planned targets.",
                            "Early exits",
                            Percent(RRound(Rat(earlyExits * 100, totalTrades))))>>
             ELSE IF planAdherence < 60
             THEN <<Insight("CONSTRUCTIVE", "Improve plan adherence",
                            "Stick to sessions and daily trade limits before optimizing entries.",
                            "Plan adherence", Percent(planAdherence))>>
             ELSE << >>
           pushed == positive \o constructive
           withPositive ==
             IF ~ SomeOf(pushed, IsPositive)
             THEN pushed \o
                  <<Insight("POSITIVE", "Consistent practice",
                            "Consistency builds edge. Keep logging trades and reviewing.",
                            "Trades analyzed", totalTrades)>>
             ELSE pushed
           insights ==
             IF ~ SomeOf(withPositive, IsConstructive)
             THEN withPositive \o
                  <<Insight("CONSTRUCTIVE", "Refine exits",
                            "Define rules for taking profits to reduce second-guessing.",
                            "Avg R:R", avgRR)>>
             ELSE withPositive
       IN [period |-> period,
           insights |-> insights,
           stats |-> [winRate |-> winRate, avgRiskReward |-> avgRR,
                      planAdherence |-> planAdherence,
                      tradesThisWeek |-> tradesThisWeek],
           recommendations |->
             Map(SelectSeq(insights, IsConstructive), InsightDescription)]

-----------------------------------------------------------------------------
(* utils/stateTrigger.js and services/analysis/stateHistory.js             *)

getStateTrigger(trade) ==
  IF trade.profitLoss > 0 THEN "Profitable trade"
  ELSE IF trade.profitLoss < 0 THEN "Losing trade"
  ELSE IF trade.exitedEarly THEN "Early exit"
  ELSE IF trade.stopLossHit THEN "Stop loss hit"
  ELSE "Trade execution"

\* an emission rule that looks at the state label only
ShouldEmit_StateOnly(history, state) ==
  \/ history = << >>
  \/ history[Len(history)].state # state.state

\* !lastState || lastState.state !== state.state ||
\* Math.abs(lastState.confidence - state.confidence) > 15, where lastState is
\* the state of the last point pushed to history
ShouldEmit(history, state) ==
  \/ history = << >>
  \/ history[Len(history)].state # state.state
  \/ Abs(history[Len(history)].confidence - state.confidence) > 15

\* a loop guard that lets one more point through
LoopGuard_Inclusive(i, n, emitted, limit) == i < n /\ emitted <= limit

\* i < sortedTrades.length && history.length < limit (i counts from 0)
LoopGuard(i, n, emitted, limit) == i < n /\ emitted < limit

\* the point pushed for a trade classified as `state`; its context (trade id,
\* profitLoss, riskPercentUsed) is reduced to the profitLoss and the risk
HistoryPoint(trade, state) ==
  [timestamp |-> trade.entryTime, state |-> state.state,
   confidence |-> state.confidence, trigger |-> getStateTrigger(trade),
   context |-> [profitLoss |-> trade.profitLoss,
                riskPercentUsed |-> trade.riskPercentUsed]]

\* the for loop from index i (0-based) on; `state` and the history after the
\* iteration are each computed once and bound
RECURSIVE HistoryLoop(_, _, _, _, _)
HistoryLoop(sortedTrades, p, limit, i, history) ==
  IF ~ LoopGuard(i, Len(sortedTrades), Len(history), limit) THEN history
  ELSE LET trade == sortedTrades[i + 1]
           recentTrades == Slice(sortedTrades, Max(0, i - 4), i + 1)
       IN CHOOSE done \in
            { HistoryLoop(sortedTrades, p, limit, i + 1, pushed) :
                pushed \in
                  { IF ShouldEmit(history, state)
                    THEN Append(history, HistoryPoint(trade, state))
                    ELSE history :
                      state \in {analyzePsychologicalState(recentTrades, p)} } } :
            TRUE

\* the keys of stateCounts in insertion order: the states in the order in
\* which each was first pushed
RECURSIVE StateKeys(_)
StateKeys(states) ==
  IF states = << >> THEN << >>
  ELSE LET before == StateKeys(SubSeq(states, 1, Len(states) - 1))
           st == states[Len(states)]
       IN IF \E k \in 1..Len(before) : before[k] = st THEN before
          ELSE Append(before, st)

StateCount(states, st) == Len(SelectSeq(states, LAMBDA x : x = st))

\* a comparison that keeps the earlier key on a tie
MoreCommon_KeepEarlier(states, a, b) ==
  IF StateCount(states, a) >= StateCount(states, b) THEN a ELSE b

\* (a, b) => (stateCounts[a] > stateCounts[b] ? a : b)
MoreCommon(states, a, b) ==
  IF StateCount(states, a) > StateCount(states, b) THEN a ELSE b

\* keys.reduce(f) without an initial value, on a non-empty list of keys
RECURSIVE ReduceKeys(_, _)
ReduceKeys(states, keys) ==
  IF Len(keys) = 1 THEN keys[1]
  ELSE MoreCommon(states, ReduceKeys(states, SubSeq(keys, 1, Len(keys) - 1)),
                  keys[Len(keys)])

\* the array `trades` after the call: Array.prototype.sort sorts in place
TradesAfterHistory(ts, p) ==
  IF Len(ts) = 0 \/ p = NoPlan THEN ts ELSE SortByEntry(ts)

\* lines 59-84: the summary and the result for the history the loop leaves;
\* volatility is in hundredths
HistoryResult(history, limit) ==
  LET states == [k \in 1..Len(history) |-> history[k].state]
      confidences == [k \in 1..Len(history) |-> history[k].confidence]
      stateChangeCount == Len(history)
      mostCommonState ==
        IF Len(StateKeys(states)) > 0
        THEN ReduceKeys(states, StateKeys(states)) ELSE "STABLE"
      averageConfidence ==
        IF Len(confidences) > 0
        THEN RRound(Rat(SumSeq(confidences), Len(confidences))) ELSE 50
      variance ==
        IF Len(confidences) > 0
        THEN Rat(SumSquares([k \in 1..Len(confidences) |->
                               confidences[k] - averageConfidence]),
                 Len(confidences))
        ELSE RInt(0)
  IN [history |-> Slice(history, 0, limit),
      summary |-> [totalChanges |-> stateChangeCount,
                   mostCommonState |-> mostCommonState,
                   averageConfidence |-> averageConfidence,
                   volatility |-> RoundSqrtCapped(variance, 100)]]

analyzeStateHistory(ts, p, limit) ==
  IF Len(ts) = 0 \/ p = NoPlan
  THEN [history |-> << >>,
        summary |-> [totalChanges |-> 0, mostCommonState |-> "STABLE",
                     averageConfidence |-> 50, volatility |-> 0]]
  ELSE CHOOSE r \in
         { HistoryResult(history, limit) :
             history \in
               { HistoryLoop(sortedTrades, p, limit, 0, << >>) :
                   sortedTrades \in {SortByEntry(ts)} } } :
         TRUE

-----------------------------------------------------------------------------
(* services/analysis/sessionForecast.js                                    *)

\* String.prototype.toUpperCase on the session names
ToUpperCase(str) ==
  CASE str = "london" -> "LONDON"
    [] str = "ny" -> "NY"
    [] str = "asia" -> "ASIA"
    [] OTHER -> str

\* a streak that needs three trades below zero
LossStreak_Strict(ts) ==
  (\A i \in 1..Len(Slice(ts, 0, 3)) : ts[i].profitLoss < 0) /\ Len(ts) >= 3

\* trades.slice(0, 3).every((t) => t.profitLoss <= 0) && totalTrades >= 3
LossStreak(ts) ==
  (\A i \in 1..Len(Slice(ts, 0, 3)) : ts[i].profitLoss <= 0) /\ Len(ts) >= 3

\* a forecast that starts from the lowest level
InitialRiskLevel_Low == "LOW"

\* let riskLevel = RiskLevel.MEDIUM
InitialRiskLevel == "MEDIUM"

\* session is << >> (absent) or <<name>>; currentState is << >> or <<state>>
analyzeSessionForecast(ts, session, p, currentState) ==
  LET upperSession == ToUpperCase(IF session = << >> THEN "LONDON" ELSE session[1])
      basedOnState == IF currentState = << >> THEN "STABLE" ELSE currentState[1].state
  IN
  IF Len(ts) = 0 \/ p = NoPlan
  THEN [session |-> upperSession, predictedBias |-> "NEUTRAL",
        riskLevel |-> "MEDIUM", forecast |-> "NEUTRAL",
        recommendations |->
          <<"Log more trades in this session to improve forecast">>,
        basedOnState |-> basedOnState]
  ELSE LET totalTrades == Len(ts)
           tradesWithRisk == SelectSeq(ts, HasRisk)
           avgRisk ==
             IF Len(tradesWithRisk) > 0
             THEN Rat(SumSeq(Map(tradesWithRisk, RiskOf)), Len(tradesWithRisk))
             ELSE RInt(p.riskPercentPerTrade)
           outsideSessionTrades ==
             Cardinality({i \in 1..Len(ts) : ts[i].session \notin p.preferredSessions})
           recentLossStreak == LossStreak(ts)
           riskEscalation == RLt(Rat(125 * p.riskPercentPerTrade, 100), avgRisk)
           sessionDrift == 10 * outsideSessionTrades >= 2 * totalTrades
           predictedBias ==
             IF recentLossStreak THEN "Revenge trading risk"
             ELSE IF riskEscalation THEN "Risk escalation tendency"
             ELSE IF sessionDrift THEN "Session drift"
             ELSE "NEUTRAL"
           afterStreak == IF recentLossStreak THEN "HIGH" ELSE InitialRiskLevel
           afterRisk == IF riskEscalation THEN "HIGH" ELSE afterStreak
           riskLevel ==
             IF sessionDrift /\ afterRisk # "HIGH" THEN "MEDIUM" ELSE afterRisk
           recommendations ==
             (IF recentLossStreak
              THEN <<"Consider pausing before new entries; reset after losses">>
              ELSE << >>)
             \o (IF riskEscalation
                 THEN <<"Reduce risk per trade to plan level">> ELSE << >>)
             \o (IF sessionDrift
                 THEN <<"Trade only in preferred sessions for this period">>
                 ELSE << >>)
             \o (IF predictedBias = "NEUTRAL"
                 THEN <<"Proceed per plan; monitor emotions after first outcome">>
                 ELSE << >>)
       IN [session |-> upperSession, predictedBias |-> predictedBias,
           riskLevel |-> riskLevel,
           forecast |-> IF riskLevel = "HIGH" THEN "NEGATIVE"
                        ELSE IF riskLevel = "LOW" THEN "POSITIVE" ELSE "NEUTRAL",
           recommendations |-> recommendations,
           basedOnState |-> basedOnState]

-----------------------------------------------------------------------------
(* services/zentra/consistencyTrend.js, first part: consistency trend      *)

\* Object.keys(groupTradesByDay(ts)).sort(): the calendar days with a trade,
\* ascending
SortedDays(ts) ==
  LET days == TradeDays(ts)
  IN [k \in 1..Cardinality(days) |->
        CHOOSE d \in days : Cardinality({e \in days : e < d}) = k - 1]

\* groupTradesByDay(ts)[day]
DayTrades(ts, day) == SelectSeq(ts, LAMBDA t : DayKey(t.entryTime) = day)

\* The square of the variability (stdDev / avgRisk) * 100 of the risks used,
\* a rational: 10000 * variance / avgRisk^2; calculateRiskConsistency is
\* 100 - min(100, sqrt of it). Without risks the variability is 0.
RiskVariabilitySquared(ts, planRisk) ==
  LET risksUsed == RisksUsed(ts)
      n == Len(risksUsed)
      total == SumSeq(risksUsed)
  IN IF Len(ts) = 0 \/ planRisk = 0 \/ n = 0 THEN RInt(0)
     ELSE Rat(10000 * (n * SumSquares(risksUsed) - total * total), total * total)

\* trades of a list sorted by entry time that follow a loss and are oversized
\* without being impulsive re-entries
RevengeCount(sortedTrades, planRisk) ==
  Cardinality({i \in 2..Len(sortedTrades) :
                 /\ ~ isImpulsiveReentry(sortedTrades[i], sortedTrades[i - 1])
                 /\ sortedTrades[i - 1].profitLoss < 0
                 /\ Truthy(sortedTrades[i].riskPercentUsed)
                 /\ 10 * RiskOf(sortedTrades[i]) > 13 * planRisk})

calculateEmotionalTradeFrequency(ts, planRisk) ==
  IF Len(ts) = 0 THEN RInt(0)
  ELSE LET sortedTrades == SortByEntry(ts)
           emotionalCount == ImpulsiveCount(sortedTrades)
                             + RevengeCount(sortedTrades, planRisk)
       IN Rat(emotionalCount * 100, Len(ts))

calculateBatteryStability(ts, planRisk) ==
  IF Len(ts) = 0 THEN RInt(100)
  ELSE LET sortedTrades == SortByEntry(ts)
           oversized(t) == Truthy(t.riskPercentUsed) /\ 10 * RiskOf(t) > 13 * planRisk
           largeLoss(t) == t.profitLoss < -2 * planRisk
           drainEvents == ImpulsiveCount(sortedTrades) + Count(sortedTrades, oversized)
                          + Count(sortedTrades, largeLoss)
           maxDrainEvents == Len(ts) * 2
           stability == RSub(RInt(100), Rat(drainEvents * 100, maxDrainEvents))
       IN RMax(RInt(0), RMin(RInt(100), stability))

\* sqrt(r) <= m for rationals r >= 0 and m
SqrtAtMost(r, m) ==
  m.n >= 0 /\ (m.d * m.d * r.n + r.d - 1) \div r.d <= m.n * m.n

\* Math.round(Math.max(0, Math.min(100, rest + 0.2 * riskConsistency))) with
\* riskConsistency = 100 - min(100, sqrt(q)): the greatest k in 0..100 with
\* k - 1/2 <= rest + 20 - sqrt(q / 25), or 0
RoundScore(rest, q) ==
  IF RLe(RInt(10000), q) THEN RRound(RMax(RInt(0), RMin(RInt(100), rest)))
  ELSE LET r == RDiv(q, RInt(25))
           reaches(k) ==
             k = 0 \/ SqrtAtMost(r, RSub(RAdd(rest, Rat(41, 2)), RInt(k)))
       IN CHOOSE k \in 0..100 : reaches(k) /\ (k = 100 \/ ~ reaches(k + 1))

\* lines 143-161: the daily data for the five measures; q is the squared
\* risk variability
DailyData(avgPlanCompliance, behavioralVolatility, q, emotionalTradeFrequency, batteryStability, tradeCount) ==
  LET \* the score without the term riskConsistency * 0.2
      rest ==
        RAdd(RAdd(Rat(avgPlanCompliance * 35, 100),
                  Rat((100 - behavioralVolatility) * 25, 100)),
             RAdd(RMul(RSub(RInt(100), emotionalTradeFrequency), Rat(15, 100)),
                  RMul(batteryStability, Rat(5, 100))))
  IN [score |-> CHOOSE k \in {RoundScore(x, q) : x \in {rest}} : TRUE,
      metrics |->
        [avgPlanCompliance |-> avgPlanCompliance,
         behavioralVolatility |-> behavioralVolatility,
         riskConsistency |-> Max(0, RoundMinusSqrt(100, q)),
         emotionalTradeFrequency |-> RRound(emotionalTradeFrequency),
         batteryStability |-> RRound(batteryStability)],
      tradeCount |-> tradeCount]

\* << >> is null
calculateDailyScore(ts, p) ==
  IF Len(ts) = 0 THEN Null
  ELSE LET planRisk == PlanRiskOr1(p)
       IN Some(CHOOSE d \in
                 { DailyData(avgPlanCompliance, behavioralVolatility, q,
                             emotionalTradeFrequency, batteryStability, Len(ts)) :
                     avgPlanCompliance \in {calculatePlanControl(ts, p).percentage},
                     behavioralVolatility \in
                       {calculatePsychologicalRadar(ts, p).traits.emotionalVolatility},
                     q \in {RiskVariabilitySquared(ts, planRisk)},
                     emotionalTradeFrequency \in
                       {calculateEmotionalTradeFrequency(ts, planRisk)},
                     batteryStability \in {calculateBatteryStability(ts, planRisk)} } :
                 TRUE)

\* parseInt(daysOption, 10) for '7', '10' and '20'
ParseDays(daysOption) ==
  CASE daysOption = "7" -> 7
    [] daysOption = "10" -> 10
    [] daysOption = "20" -> 20

\* a direction that is decided from two scores on
TrendDirection_FromTwo(scores) ==
  IF Len(scores) >= 2
  THEN LET half == Len(scores) \div 2
           firstAvg == Rat(SumSeq(Slice(scores, 0, half)), half)
           secondAvg == Rat(SumSeq(Slice(scores, half, Len(scores))), Len(scores) - half)
       IN IF RLt(RInt(5), RSub(secondAvg, firstAvg)) THEN "improving"
          ELSE IF RLt(RInt(5), RSub(firstAvg, secondAvg)) THEN "deteriorating"
          ELSE "stable"
  ELSE "stable"

\* lines 229-241
TrendDirection(scores) ==
  IF Len(scores) >= 3
  THEN LET half == Len(scores) \div 2
           firstAvg == Rat(SumSeq(Slice(scores, 0, half)), half)
           secondAvg == Rat(SumSeq(Slice(scores, half, Len(scores))), Len(scores) - half)
       IN IF RLt(RInt(5), RSub(secondAvg, firstAvg)) THEN "improving"
          ELSE IF RLt(RInt(5), RSub(firstAvg, secondAvg)) THEN "deteriorating"
          ELSE "stable"
  ELSE "stable"

getTrendMessage(direction, avgScore) ==
  IF direction = "improving" THEN "Your psychological consistency is improving"
  ELSE IF direction = "deteriorating"
  THEN "Your psychological consistency is declining - review recent behavior"
  ELSE IF avgScore >= 70 THEN "Stable and disciplined trading pattern"
  ELSE "Consistency is stable but has room for improvement"

\* lines 225-259: the summary and the result for the list of daily points
TrendResult(trend, daysOption) ==
  LET scores == [k \in 1..Len(trend) |-> trend[k].score]
      averageScore ==
        IF Len(scores) > 0 THEN RRound(Rat(SumSeq(scores), Len(scores))) ELSE 0
      trendDirection == TrendDirection(scores)
  IN [trend |-> trend,
      summary |->
        [averageScore |-> averageScore,
         trendDirection |-> trendDirection,
         daysWithData |-> Len(trend),
         totalDays |-> IF daysOption = "all" THEN Len(trend) ELSE ParseDays(daysOption),
         message |-> getTrendMessage(trendDirection, averageScore)]]

\* lines 215-220: the entry pushed for a day
TrendPoint(day, dailyData) ==
  [date |-> day, score |-> dailyData.score, metrics |-> dailyData.metrics,
   tradeCount |-> dailyData.tradeCount]

\* `now` is new Date() in minutes; setDate moves the start back whole days
calculateConsistencyTrend(ts, p, daysOption, now) ==
  IF Len(ts) = 0
  THEN [trend |-> << >>,
        summary |-> [averageScore |-> 0, trendDirection |-> "stable",
                     daysWithData |-> 0, totalDays |-> 0]]
  ELSE LET startDate ==
             IF daysOption = "all"
             THEN Min(now, CHOOSE e \in {ts[i].entryTime : i \in 1..Len(ts)} :
                             \A i \in 1..Len(ts) : e <= ts[i].entryTime)
             ELSE now - ParseDays(daysOption) * 1440
           filteredTrades == SelectSeq(ts, LAMBDA t : t.entryTime >= startDate)
       IN CHOOSE r \in
            { TrendResult(trend, daysOption) :
                trend \in
                  { [k \in 1..Len(sortedDays) |->
                       CHOOSE point \in
                         { TrendPoint(sortedDays[k], dailyData[1]) :
                             dailyData \in
                               {calculateDailyScore(
                                  DayTrades(filteredTrades, sortedDays[k]), p)} } : TRUE] :
                      sortedDays \in {SortedDays(filteredTrades)} } } :
            TRUE

-----------------------------------------------------------------------------
(* Inputs: trades and plans                                                *)

\* A trade "kind": every field of a Trade document but its times, plus the
\* minutes between the previous (older) trade's entry and this entry, and
\* the minutes the position stays open.
Kind(pl, risk, rr, target, session, slHit, early, notes, gap, dur) ==
  [profitLoss |-> pl, riskPercentUsed |-> risk, riskRewardAchieved |-> rr,
   targetPercentAchieved |-> target, session |-> session, stopLossHit |-> slHit,
   exitedEarly |-> early, notes |-> notes, gap |-> gap, dur |-> dur]

\* the Trade document of kind k entered at time `entry`
MkTrade(k, entry) ==
  [entryTime |-> entry, exitTime |-> entry + k.dur,
   profitLoss |-> k.profitLoss, riskPercentUsed |-> k.riskPercentUsed,
   riskRewardAchieved |-> k.riskRewardAchieved,
   targetPercentAchieved |-> k.targetPercentAchieved, session |-> k.session,
   stopLossHit |-> k.stopLossHit, exitedEarly |-> k.exitedEarly, notes |-> k.notes]

\* The trades of the kinds ks (oldest first), the first entered at `start`,
\* in chronological order.
RECURSIVE Chrono(_, _)
Chrono(ks, start) ==
  IF ks = << >> THEN << >>
  ELSE <<MkTrade(Head(ks), start)>>
       \o (IF Len(ks) = 1 THEN << >>
           ELSE Chrono(Tail(ks), start + ks[2].gap))

Reverse(s) == [i \in 1..Len(s) |-> s[Len(s) + 1 - i]]

\* Trade.find(...).sort({ entryTime: -1 }): most recent first
Fetched(ks, start) == Reverse(Chrono(ks, start))

Repeat(x, n) == [i \in 1..n |-> x]

\* all lists over the set S of length at most n
RECURSIVE ListsUpTo(_, _)
ListsUpTo(S, n) ==
  IF n = 0 THEN {<< >>}
  ELSE LET shorter == ListsUpTo(S, n - 1)
       IN shorter \cup {<<x>> \o l : x \in S, l \in {m \in shorter : Len(m) = n - 1}}

Plan(risk, maxPerDay, targetRR, sessions) ==
  [riskPercentPerTrade |-> risk, maxTradesPerDay |-> maxPerDay,
   targetRiskRewardRatio |-> targetRR, preferredSessions |-> sessions]

\* the plan of the README's worked example
ExamplePlan == Plan(15, 5, 20, {"LONDON", "NY"})

char == "a"

-----------------------------------------------------------------------------
(* Current-state analysis: analyzePsychologicalState over stored trades    *)

\* longest run of one kind in a generated trade list
MaxBlock == 4

StateKinds ==
  { Kind(100, Some(15), Some(20), Some(100), "LONDON", FALSE, FALSE, <<char>>, 1440, 30),
    Kind(-50, Some(30), Null, Some(0), "ASIA", TRUE, FALSE, << >>, 60, 30),
    Kind(40, Null, Null, Null, "NY", FALSE, TRUE, << >>, 60, 30),
    Kind(60, Some(20), Some(10), Some(50), "LONDON", FALSE, FALSE, << >>, 1440, 30),
    Kind(-10, Some(15), Some(0), Some(85), "NY", TRUE, FALSE, << >>, 600, 30) }

StatePlans ==
  { ExamplePlan, Plan(15, 1, 20, {"LONDON"}), Plan(0, 0, 0, {}), NoPlan }

\* the stored trades: up to three runs of one kind each
StateList(a, b, c, i, j, k) ==
  Fetched(Repeat(a, i) \o Repeat(b, j) \o Repeat(c, k), 0)

InitState ==
  /\ \E a \in StateKinds, b \in StateKinds, c \in StateKinds :
       \E i \in 0..MaxBlock, j \in 0..MaxBlock, k \in 0..MaxBlock :
         trades = StateList(a, b, c, i, j, k)
  /\ plan \in StatePlans
  /\ input = NoInput
  /\ op = "none"
  /\ result = NoResult
  /\ db = NoDb
  /\ calls = NoCalls

\* analysis.service getCurrentState: the plan and the 10 most recent trades
\* are fetched and handed to analyzePsychologicalState
GetCurrentState ==
  /\ op = "none"
  /\ op' = "analyzePsychologicalState"
  /\ result' = analyzePsychologicalState(Slice(trades, 0, 10), plan)
  /\ UNCHANGED <<trades, plan, input, db, calls>>

NextState == GetCurrentState

SpecState == InitState /\ [][NextState]_vars

StateDone == op = "analyzePsychologicalState"

\* C1 (as the code has it): the confidence returned by
\* analyzePsychologicalState is an integer in [10,95]; it is at most 40
\* whenever at least one and fewer than 5 trades were analyzed; the
\* insufficient-data result (analyzedTradeCount 0) carries confidence 50.
C1_ConfidenceRange ==
  StateDone =>
    /\ result.confidence \in 10..95
    /\ (result.analyzedTradeCount \in 1..4 => result.confidence <= 40)
    /\ (result.analyzedTradeCount = 0 => result.confidence = 50)

\* C1 as stated: confidence in [10,95] and at most 40 whenever
\* analyzedTradeCount < 5.
C1_AsStated ==
  StateDone =>
    /\ result.confidence \in 10..95
    /\ (result.analyzedTradeCount < 5 => result.confidence <= 40)

\* a window of 1..4 trades whose computed confidence was cut down to 40
C1_Witness ==
  /\ StateDone
  /\ Len(trades) \in 1..4
  /\ plan # NoPlan
  /\ result.analyzedTradeCount = Len(trades)
  /\ result.confidence = 40

\* C3: with an empty trade list or a missing plan, analyzePsychologicalState
\* returns STABLE, confidence 50, planAdherence 50, analyzedTradeCount 0,
\* exactly one indicator (category 'data', severity neutral) and the
\* recommendation 'Record trades and set a trading plan to enable analysis'.
C3_InsufficientData ==
  (StateDone /\ (Len(trades) = 0 \/ plan = NoPlan)) =>
    /\ result.state = "STABLE"
    /\ result.confidence = 50
    /\ result.planAdherence = 50
    /\ result.analyzedTradeCount = 0
    /\ Len(result.indicators) = 1
    /\ result.indicators[1].category = "data"
    /\ result.indicators[1].severity = "neutral"
    /\ result.recommendations =
         <<"Record trades and set a trading plan to enable analysis">>

\* trades are stored but the plan is missing, and the analysis has run
C3_Witness ==
  /\ StateDone
  /\ Len(trades) > 0
  /\ plan = NoPlan
  /\ result.analyzedTradeCount = 0

-----------------------------------------------------------------------------
(* The classifier alone: determineState over combinations of metrics       *)

\* largest number of analysed trades / of days with trades in a combination
MaxTotal == 4

MaxDays == 3

\* Combinations as calculateBasicMetrics, calculateDayMetrics,
\* calculateRiskSpike and calculateRiskBreaches can produce them for
\* totalTrades >= 1: counts within the number of trades, days within the
\* number of days with trades, daysWithTrades >= 1.
DetermineInput(n, w, e, b, nth, med, d, x, o, rs, avg) ==
  [metrics |-> [winRate |-> Rat(w, n), earlyExits |-> e,
                medianTargetPct |-> RInt(med), nearTargetHits |-> nth],
   dayMetrics |-> [daysWithTrades |-> d, exceededDays |-> x,
                   outsideSessionDays |-> o],
   riskMetrics |-> [riskSpike |-> rs, riskBreaches |-> b,
                    avgRiskUsed |-> RInt(avg)],
   planRisk |-> RInt(15),
   totalTrades |-> n]

InitDetermine ==
  /\ trades = << >>
  /\ plan = ExamplePlan
  /\ \E n \in 1..MaxTotal, d \in 1..MaxDays :
       \E w \in 0..n, e \in 0..n, b \in 0..n, nth \in {0, n}, med \in {50, 60},
          x \in 0..d, o \in 0..d, rs \in BOOLEAN, avg \in {15, 19} :
         input = DetermineInput(n, w, e, b, nth, med, d, x, o, rs, avg)
  /\ op = "none"
  /\ result = NoResult
  /\ db = NoDb
  /\ calls = NoCalls

DetermineState ==
  /\ op = "none"
  /\ op' = "determineState"
  /\ result' = determineState(input.metrics, input.dayMetrics, input.riskMetrics,
                              input.planRisk, input.totalTrades)
  /\ UNCHANGED <<trades, plan, input, db, calls>>

NextDetermine == DetermineState

SpecDetermine == InitDetermine /\ [][NextDetermine]_vars

DetermineDone == op = "determineState"

\* the conditions of the three non-default states, in integer arithmetic
OverextendedCondition ==
  \/ 100 * input.dayMetrics.exceededDays >= 33 * input.dayMetrics.daysWithTrades
  \/ 100 * input.dayMetrics.outsideSessionDays >= 33 * input.dayMetrics.daysWithTrades

AggressiveCondition ==
  \/ input.riskMetrics.riskSpike
  \/ 4 * input.riskMetrics.riskBreaches >= input.totalTrades
  \/ 4 * input.riskMetrics.avgRiskUsed.n * input.planRisk.d
        > 5 * input.planRisk.n * input.riskMetrics.avgRiskUsed.d

HesitantCondition ==
  \/ 10 * input.metrics.earlyExits >= 4 * input.totalTrades
  \/ /\ input.metrics.medianTargetPct.n < 60 * input.metrics.medianTargetPct.d
     /\ 10 * input.metrics.winRate.n <= 6 * input.metrics.winRate.d

-----------------------------------------------------------------------------
(* The metrics alone: calculateBasicMetrics, calculateRiskSpike and        *)
(* calculateRiskBreaches over trade lists with missing fields              *)

\* longest trade list handed to the metrics
MaxLen == 5

MetricKinds ==
  { Kind(100, Some(20), Some(15), Null, "LONDON", FALSE, FALSE, << >>, 60, 30),
    Kind(-50, Null, Null, Some(40), "NY", TRUE, FALSE, << >>, 60, 30),
    Kind(40, Some(15), Null, Some(90), "LONDON", FALSE, FALSE, << >>, 60, 30),
    Kind(-10, Some(25), Some(10), Some(70), "ASIA", TRUE, FALSE, << >>, 60, 30),
    Kind(20, Some(5), Some(30), Some(100), "NY", FALSE, TRUE, << >>, 60, 30) }

InitMetrics ==
  /\ \E ks \in ListsUpTo(MetricKinds, MaxLen) : trades = Fetched(ks, 0)
  /\ plan = ExamplePlan
  /\ input = NoInput
  /\ op = "none"
  /\ result = NoResult
  /\ db = NoDb
  /\ calls = NoCalls

CalculateBasicMetrics ==
  /\ op = "none"
  /\ op' = "calculateBasicMetrics"
  /\ result' = calculateBasicMetrics(trades)
  /\ UNCHANGED <<trades, plan, input, db, calls>>

CalculateRiskSpike ==
  /\ op = "none"
  /\ op' = "calculateRiskSpike"
  /\ result' = calculateRiskSpike(trades, PlanRisk(plan))
  /\ UNCHANGED <<trades, plan, input, db, calls>>

CalculateRiskBreaches ==
  /\ op = "none"
  /\ op' = "calculateRiskBreaches"
  /\ result' = [riskBreaches |-> calculateRiskBreaches(trades, PlanRisk(plan))]
  /\ UNCHANGED <<trades, plan, input, db, calls>>

NextMetrics ==
  \/ CalculateBasicMetrics
  \/ CalculateRiskSpike
  \/ CalculateRiskBreaches

SpecMetrics == InitMetrics /\ [][NextMetrics]_vars

\* positions of the trades that carry the field, and the field's total with
\* a missing value contributing nothing
WithRisk == {i \in 1..Len(trades) : trades[i].riskPercentUsed # << >>}

WithRR == {i \in 1..Len(trades) : trades[i].riskRewardAchieved # << >>}

WithTarget == {i \in 1..Len(trades) : trades[i].targetPercentAchieved # << >>}

RiskTotal ==
  SumSeq([i \in 1..Len(trades) |->
            IF i \in WithRisk THEN trades[i].riskPercentUsed[1] ELSE 0])

RRTotal ==
  SumSeq([i \in 1..Len(trades) |->
            IF i \in WithRR THEN trades[i].riskRewardAchieved[1] ELSE 0])

\* m = [n, d] is a median of the present target percentages: one of them
\* (odd count) or the mean of two of them (even count), with at least half
\* of them on either side
IsMedianOfTargets(m) ==
  LET k == Cardinality(WithTarget)
      v(i) == trades[i].targetPercentAchieved[1]
  IN /\ 2 * Cardinality({i \in WithTarget : v(i) * m.d <= m.n}) >= k
     /\ 2 * Cardinality({i \in WithTarget : v(i) * m.d >= m.n}) >= k
     /\ IF k % 2 = 1
        THEN \E i \in WithTarget : m.n = v(i) * m.d
        ELSE \E i \in WithTarget : \E j \in WithTarget \ {i} :
               2 * m.n = (v(i) + v(j)) * m.d

\* the risk-spike threshold 1.3 * max(planRisk, mean of the present risks),
\* times 10 * |WithRisk| (planRisk alone when no risk is present)
SpikeBreach(i) ==
  LET c == Cardinality(WithRisk)
      r == trades[i].riskPercentUsed[1]
  IN /\ i \in WithRisk
     /\ 10 * r > 13 * plan.riskPercentPerTrade
     /\ 10 * r * c > 13 * RiskTotal

\* C4: avgRiskUsed and avgRR are the totals of the present values divided
\* by the number of present values, medianTargetPct is a median of the
\* present target percentages (each 0 when none is present), riskBreaches
\* counts present risks above 1.5 x plan, and riskSpike compares the three
\* most recent trades' present risks with a threshold whose average is taken
\* over present risks only; risks [2.0, null, 1.5, null, 2.5] average 2.0.
C4_NullsExcluded ==
  /\ op = "calculateBasicMetrics" /\ Len(trades) > 0 =>
       /\ IF WithRisk = {} THEN result.avgRiskUsed = RInt(0)
          ELSE result.avgRiskUsed.n * Cardinality(WithRisk)
                 = result.avgRiskUsed.d * RiskTotal
       /\ IF WithRR = {} THEN result.avgRR = RInt(0)
          ELSE result.avgRR.n * Cardinality(WithRR) = result.avgRR.d * RRTotal
       /\ IF WithTarget = {} THEN result.medianTargetPct = RInt(0)
          ELSE IsMedianOfTargets(result.medianTargetPct)
       /\ ([i \in 1..Len(trades) |-> trades[i].riskPercentUsed]
             = <<Some(20), Null, Some(15), Null, Some(25)>>
           => result.avgRiskUsed = [n |-> 20, d |-> 1])
  /\ op = "calculateRiskBreaches" =>
       result.riskBreaches =
         Cardinality({i \in WithRisk :
            10 * trades[i].riskPercentUsed[1] > 15 * plan.riskPercentPerTrade})
  /\ op = "calculateRiskSpike" /\ Len(trades) > 0 =>
       /\ result.last3Breaches =
            Cardinality({i \in 1..Min(3, Len(trades)) : SpikeBreach(i)})
       /\ result.riskSpike = (result.last3Breaches >= 2)

\* the risks [2.0, null, 1.5, null, 2.5] have been averaged
C4_Witness ==
  /\ op = "calculateBasicMetrics"
  /\ [i \in 1..Len(trades) |-> trades[i].riskPercentUsed]
       = <<Some(20), Null, Some(15), Null, Some(25)>>
  /\ result.avgRiskUsed = [n |-> 20, d |-> 1]
  /\ WithRR # {} /\ WithRR # 1..Len(trades)
  /\ WithTarget # {} /\ WithTarget # 1..Len(trades)

-----------------------------------------------------------------------------
(* The worked example: plan 1.5% / 5 per day / LONDON + NY and windows of  *)
(* 10 trades with 6 wins, average risk 1.8, 2 risk breaches, most recent   *)
(* risk 2.6, no day above the cap, 6 days with trades, 2 of them outside   *)
(* the preferred sessions                                                  *)

\* The trade at position pos (1 = most recent) of such a window.  The
\* second 2.6% risk sits at position j, the h most recent trades reached
\* hi% of target and the others lo%, the days in `outside` have their
\* trades in the ASIA session.  Days hold 2, 2, 2, 2, 1 and 1 trades.
ExampleTrade(pos, j, h, hi, lo, outside) ==
  LET c == 11 - pos
      day == <<1, 1, 2, 2, 3, 3, 4, 4, 5, 6>>[c]
      win == pos <= 6
  IN MkTrade(Kind(IF win THEN 100 ELSE -50,
                  Some(IF pos = 1 \/ pos = j THEN 26 ELSE 16),
                  Some(14),
                  Some(IF pos <= h THEN hi ELSE lo),
                  IF day \in outside THEN "ASIA" ELSE "LONDON",
                  ~win, FALSE, << >>, 60, 30),
             day * 1440 + 600 + 60 * c)

InitExample ==
  /\ plan = ExamplePlan
  /\ \E j \in 2..10, h \in 0..10, hi \in {80, 100}, lo \in {20, 60} :
       \E a \in 1..6, b \in 1..6 :
         /\ a < b
         /\ input = [j |-> j, h |-> h, hi |-> hi, lo |-> lo, outside |-> {a, b}]
         /\ trades = [pos \in 1..10 |-> ExampleTrade(pos, j, h, hi, lo, {a, b})]
  /\ op = "none"
  /\ result = NoResult
  /\ db = NoDb
  /\ calls = NoCalls

AnalyzeExample ==
  /\ op = "none"
  /\ op' = "analyzePsychologicalState"
  /\ result' = analyzePsychologicalState(Slice(trades, 0, 10), plan)
  /\ UNCHANGED <<trades, plan, input, db, calls>>

NextExample == AnalyzeExample

SpecExample == InitExample /\ [][NextExample]_vars

\* the figures the example gives hold of the window
ExampleFigures ==
  LET basic == calculateBasicMetrics(trades)
      days == calculateDayMetrics(trades, plan)
  IN /\ Len(trades) = 10
     /\ basic.winRate = Rat(6, 10)
     /\ basic.avgRiskUsed = RInt(18)
     /\ calculateRiskBreaches(trades, RInt(15)) = 2
     /\ trades[1].riskPercentUsed = Some(26)
     /\ days = [daysWithTrades |-> 6, exceededDays |-> 0, outsideSessionDays |-> 2]

ExampleRiskSpike == calculateRiskSpike(trades, RInt(15)).riskSpike

ExampleDone == op = "analyzePsychologicalState" /\ Len(trades) = 10 /\ input # NoInput

-----------------------------------------------------------------------------
(* The scores: plan control, mental battery, radar, heatmap and plan       *)
(* adherence over trade lists with varied sizes, results and timing        *)

\* longest trade list handed to the scores
MaxScoreLen == 4

\* a disciplined winner, an oversized losing re-entry cut short, a hesitant
\* undersized re-entry, a next-day loser without risk data, and a long on-plan trade
ScoreKinds ==
  { Kind(100, Some(15), Some(25), Some(100), "LONDON", FALSE, FALSE, <<char>>, 180, 60),
    Kind(-50, Some(45), Null, Null, "ASIA", TRUE, TRUE, << >>, 40, 30),
    Kind(20, Some(5), Some(5), Some(40), "NY", FALSE, TRUE, << >>, 40, 30),
    Kind(-10, Null, Some(0), Some(0), "LONDON", TRUE, FALSE, << >>, 1500, 30),
    Kind(0, Some(16), Some(20), Some(80), "LONDON", FALSE, FALSE, <<char>>, 300, 240) }

ScorePlans == {ExamplePlan, Plan(0, 0, 0, {}), NoPlan}

\* the first trade enters at 09:00 of day 0
InitScores ==
  /\ \E ks \in ListsUpTo(ScoreKinds, MaxScoreLen) : trades = Fetched(ks, 540)
  /\ plan \in ScorePlans
  /\ input = NoInput
  /\ op = "none"
  /\ result = NoResult
  /\ db = NoDb
  /\ calls = NoCalls

CalculatePlanControl ==
  /\ op = "none"
  /\ op' = "calculatePlanControl"
  /\ result' = calculatePlanControl(trades, plan)
  /\ UNCHANGED <<trades, plan, input, db, calls>>

\* the battery of the listed trades, with the plan control of the five most
\* recent ones as zentra.service computes it
CalculateMentalBattery ==
  /\ op = "none"
  /\ op' = "calculateMentalBattery"
  /\ result' = calculateMentalBattery(trades, plan,
                   calculatePlanControl(Slice(trades, 0, 5), plan).percentage)
  /\ UNCHANGED <<trades, plan, input, db, calls>>

CalculatePsychologicalRadar ==
  /\ op = "none"
  /\ op' = "calculatePsychologicalRadar"
  /\ result' = calculatePsychologicalRadar(trades, plan)
  /\ UNCHANGED <<trades, plan, input, db, calls>>

CalculateBehaviorHeatmap ==
  /\ op = "none"
  /\ op' = "calculateBehaviorHeatmap"
  /\ result' = calculateBehaviorHeatmap(trades, plan)
  /\ UNCHANGED <<trades, plan, input, db, calls>>

NextScores ==
  \/ CalculatePlanControl
  \/ CalculateMentalBattery
  \/ CalculatePsychologicalRadar
  \/ CalculateBehaviorHeatmap
  \/ GetCurrentState

SpecScores == InitScores /\ [][NextScores]_vars

\* C5: planAdherence, the six radar traits, the battery, the plan-control
\* percentage and the score of every heatmap window that has a trade all
\* lie in 0..100 (every riskPercentUsed of the lists is >= 0).
C5_ScoresInRange ==
  /\ op = "analyzePsychologicalState" => result.planAdherence \in 0..100
  /\ op = "calculatePlanControl" => result.percentage \in 0..100
  /\ op = "calculateMentalBattery" => result.battery \in 0..100
  /\ op = "calculatePsychologicalRadar" =>
       /\ result.traits.discipline \in 0..100
       /\ result.traits.impulseControl \in 0..100
       /\ result.traits.aggression \in 0..100
       /\ result.traits.hesitation \in 0..100
       /\ result.traits.consistency \in 0..100
       /\ result.traits.emotionalVolatility \in 0..100
  /\ op = "calculateBehaviorHeatmap" =>
       \A w \in 1..8 :
         result.windows[w].tradeCount > 0 =>
           /\ Len(result.windows[w].score) = 1
           /\ result.windows[w].score[1] \in 0..100

\* a day of oversized losing re-entries has drained the battery to 0
C5_Witness ==
  /\ op = "calculateMentalBattery"
  /\ Len(trades) >= 3
  /\ \A i \in 1..Len(trades) : trades[i].riskPercentUsed = Some(45)
  /\ result.battery = 0

\* the trades of the list that enter in window w (hours 3(w-1) .. 3w - 1)
InWindow(w) ==
  {i \in 1..Len(trades) :
     ((trades[i].entryTime % 1440) \div 60) \div 3 = w - 1}

\* C9: each of the 8 windows of calculateBehaviorHeatmap reports the number
\* of trades entered in it; a window without trades has score null, colour
\* grey and tradeCount 0; a window with trades has a numeric score and the
\* colour green iff score >= 70, yellow iff 40 <= score < 70, red otherwise.
C9_HeatmapWindows ==
  op = "calculateBehaviorHeatmap" =>
    /\ Len(result.windows) = 8
    /\ \A w \in 1..8 :
         LET win == result.windows[w]
         IN /\ win.tradeCount = Cardinality(InWindow(w))
            /\ InWindow(w) = {} =>
                 win.score = << >> /\ win.color = "grey" /\ win.tradeCount = 0
            /\ InWindow(w) # {} =>
                 /\ Len(win.score) = 1
                 /\ win.score[1] \in Int
                 /\ win.color \in {"green", "yellow", "red"}
                 /\ (win.color = "green") = (win.score[1] >= 70)
                 /\ (win.color = "yellow") = (win.score[1] >= 40 /\ win.score[1] < 70)
                 /\ (win.color = "red") = (win.score[1] < 40)

\* a heatmap with an empty (grey) window and a red one
C9_Witness ==
  /\ op = "calculateBehaviorHeatmap"
  /\ \E w \in 1..8 : InWindow(w) = {} /\ result.windows[w].color = "grey"
  /\ \E w \in 1..8 :
       /\ InWindow(w) # {}
       /\ result.windows[w].color = "red"
       /\ result.windows[w].score[1] < 40

-----------------------------------------------------------------------------
(* Breathwork: shouldSuggestBreathwork over batteries, volatilities,       *)
(* session-start batteries and today's trades                              *)

\* longest list of today's trades
MaxBreathLen == 4

\* a re-entry 10 minutes after the previous exit, and a trade entered 40
\* minutes after the previous exit
BreathKinds ==
  { Kind(-20, Some(15), Null, Null, "LONDON", TRUE, FALSE, << >>, 15, 5),
    Kind(30, Some(15), Some(20), Some(90), "LONDON", FALSE, FALSE, << >>, 70, 30) }

\* the time of the request: 10 or 100 minutes after the latest entry
InitBreath ==
  /\ \E ks \in ListsUpTo(BreathKinds, MaxBreathLen) : trades = Fetched(ks, 600)
  /\ plan = ExamplePlan
  /\ \E b \in {0, 29, 35, 39, 40, 69, 70, 100}, v \in {0, 50, 70, 71, 80, 81, 100},
        s \in {<< >>, <<100>>, <<60>>}, late \in {10, 100} :
       input = [mentalBattery |-> b, emotionalVolatility |-> v,
                sessionStartBattery |-> s,
                now |-> (IF Len(trades) = 0 THEN 600 ELSE trades[1].entryTime) + late]
  /\ op = "none"
  /\ result = NoResult
  /\ db = NoDb
  /\ calls = NoCalls

ShouldSuggestBreathwork ==
  /\ op = "none"
  /\ op' = "shouldSuggestBreathwork"
  /\ result' = shouldSuggestBreathwork(input.mentalBattery, input.emotionalVolatility,
                                       trades, input.sessionStartBattery, input.now)
  /\ UNCHANGED <<trades, plan, input, db, calls>>

NextBreath == ShouldSuggestBreathwork

SpecBreath == InitBreath /\ [][NextBreath]_vars

\* the call of the example: battery 35, volatility 50, one impulsive
\* re-entry in the last hour, session-start battery left out
BreathExample ==
  /\ op = "shouldSuggestBreathwork"
  /\ input.mentalBattery = 35
  /\ input.emotionalVolatility = 50
  /\ input.sessionStartBattery = << >>
  /\ countImpulsiveTradesLastHour(trades, input.now) = 1

\* C7 (as the code has it): the call of the example returns shouldSuggest
\* true with two triggers, low_battery and battery_drop (100 - 35 = 65 > 30),
\* urgency score 75 (40 for two triggers, 15 for battery < 40, 20 for two
\* severe triggers) and urgency level 'high'.
C7_Breathwork ==
  BreathExample =>
    /\ result.shouldSuggest = TRUE
    /\ result.triggers = <<"low_battery", "battery_drop">>
    /\ result.urgency.score = 75
    /\ result.urgency.level = "high"

\* C7 as stated: low_battery the only trigger, urgency score 35, level 'low'.
C7_AsStated ==
  BreathExample =>
    /\ result.shouldSuggest = TRUE
    /\ result.triggers = <<"low_battery">>
    /\ result.urgency.score = 35
    /\ result.urgency.level = "low"

\* the call of the example has been answered
C7_Witness ==
  /\ BreathExample
  /\ Len(trades) >= 2
  /\ result.shouldSuggest = TRUE
  /\ result.urgency.score = 75

-----------------------------------------------------------------------------
(* Performance window: the service's getPerformanceWindow over the ten     *)
(* most recent trades                                                      *)

\* longest list of stored trades
MaxWindowLen == 6

\* a loss within the planned risk two hours after the previous entry, an
\* oversized win 10 minutes after the previous exit, a win within the
\* planned risk two hours after the previous entry, and an early exit
\* without a recorded risk five hours after the previous entry
WindowKinds ==
  { Kind(-20, Some(15), Null, Null, "LONDON", TRUE, FALSE, << >>, 120, 30),
    Kind(40, Some(30), Some(20), Some(100), "LONDON", FALSE, FALSE, << >>, 40, 30),
    Kind(30, Some(15), Some(25), Some(100), "LONDON", FALSE, FALSE, <<char>>, 120, 30),
    Kind(-10, Null, Null, Null, "ASIA", TRUE, TRUE, << >>, 300, 30) }

InitWindow ==
  /\ \E ks \in ListsUpTo(WindowKinds, MaxWindowLen) : trades = Fetched(ks, 540)
  /\ plan \in {ExamplePlan, NoPlan}
  /\ input = NoInput
  /\ op = "none"
  /\ result = NoResult
  /\ db = NoDb
  /\ calls = NoCalls

GetPerformanceWindow ==
  /\ op = "none"
  /\ op' = "getPerformanceWindow"
  /\ LET recentTrades == Slice(trades, 0, 10)
         currentTrades == Slice(recentTrades, 0, 5)
         previousTrades == Slice(recentTrades, 5, 10)
         currentPlanControl == calculatePlanControl(currentTrades, plan)
         previousPlanControl ==
           IF Len(previousTrades) > 0
           THEN Some(calculatePlanControl(previousTrades, plan).percentage)
           ELSE Null
     IN result' = getPerformanceWindow(currentTrades, plan,
                                       currentPlanControl.percentage,
                                       previousPlanControl)
  /\ UNCHANGED <<trades, plan, input, db, calls>>

NextWindow == GetPerformanceWindow

SpecWindow == InitWindow /\ [][NextWindow]_vars

\* the trades handed to the detector
CurrentTrades == Slice(trades, 0, 5)

\* the six checks in the order of their priority numbers 1..6, each with
\* the id of its improvement
Checks ==
  << [holds |-> checkAvoidedRevenge(CurrentTrades, PlanRiskOr1(plan)),
      id |-> "avoided_revenge"],
     [holds |-> checkStableRisk(CurrentTrades, PlanRiskOr1(plan)),
      id |-> "stable_risk"],
     [holds |-> checkNoImpulsive(CurrentTrades), id |-> "no_impulsive"],
     [holds |-> checkImprovedPlanControl(
                  calculatePlanControl(CurrentTrades, plan).percentage,
                  IF Len(trades) > 5
                  THEN Some(calculatePlanControl(Slice(trades, 5, 10), plan).percentage)
                  ELSE Null),
      id |-> "improved_plan_control"],
     [holds |-> checkNoHesitation(CurrentTrades), id |-> "no_hesitation"],
     [holds |-> checkConsistentTiming(CurrentTrades), id |-> "consistent_timing"] >>

WindowDone == op = "getPerformanceWindow" /\ Len(trades) > 0

\* C8: getPerformanceWindow reports, as its message and description, the
\* improvement of the true check with the smallest priority number among the
\* six checks; in particular, whenever both 'avoided revenge' and 'stable
\* risk' are true, the reported message is the 'avoided revenge' one.
C8_TopPriority ==
  WindowDone =>
    /\ \A k \in 1..6 :
         (Checks[k].holds /\ \A j \in 1..(k - 1) : ~ Checks[j].holds) =>
           /\ result.message = <<FindImprovement(Checks[k].id).message>>
           /\ result.description = <<FindImprovement(Checks[k].id).description>>
           /\ result.improvements[1].id = Checks[k].id
    /\ (Checks[1].holds /\ Checks[2].holds) =>
         /\ result.message = <<FindImprovement("avoided_revenge").message>>
         /\ result.message # <<FindImprovement("stable_risk").message>>

\* both 'avoided revenge' and 'stable risk' hold for five trades and the
\* window has been reported
C8_Witness ==
  /\ WindowDone
  /\ Len(trades) >= 5
  /\ Checks[1].holds /\ Checks[2].holds
  /\ Len(result.improvements) >= 2
  /\ result.message = <<FindImprovement("avoided_revenge").message>>

-----------------------------------------------------------------------------
(* Performance insights: the service's getPerformanceInsights over the     *)
(* stored trades, the plan and the period                                  *)

\* longest list of stored trades
MaxInsightLen == 4

\* a win inside the plan a day after the previous entry, an oversized early
\* exit outside the sessions a day after, a win below half the target
\* without risk eight days after, and a loss within risk outside the
\* sessions thirty days after
InsightKinds ==
  { Kind(50, Some(15), Some(25), Some(100), "LONDON", FALSE, FALSE, <<char>>, 1440, 60),
    Kind(-40, Some(30), Null, Null, "ASIA", TRUE, TRUE, << >>, 1440, 60),
    Kind(10, Null, Null, Some(40), "NY", FALSE, FALSE, << >>, 11520, 60),
    Kind(-20, Some(15), Some(0), Null, "ASIA", TRUE, FALSE, << >>, 43200, 60) }

\* the request comes an hour after the latest entry
InitInsights ==
  /\ \E ks \in ListsUpTo(InsightKinds, MaxInsightLen) : trades = Fetched(ks, 540)
  /\ plan \in {ExamplePlan, Plan(0, 0, 0, {}), NoPlan}
  /\ \E period \in {"WEEK", "MONTH", "QUARTER", "YEAR"} :
       \E days \in PeriodDays(period) :
         input = [period |-> period, days |-> days,
                  now |-> (IF Len(trades) = 0 THEN 540 ELSE trades[1].entryTime) + 60]
  /\ op = "none"
  /\ result = NoResult
  /\ db = NoDb
  /\ calls = NoCalls

\* the trades the query of the handler returns
PeriodTrades ==
  LET dateRange == getDateRange(input.now, input.days)
  IN SelectSeq(trades, LAMBDA t : /\ t.entryTime >= dateRange.start
                                  /\ t.entryTime <= dateRange.end)

GetPerformanceInsights ==
  /\ op = "none"
  /\ op' = "analyzePerformanceInsights"
  /\ result' = analyzePerformanceInsights(PeriodTrades, plan, input.period, input.now)
  /\ UNCHANGED <<trades, plan, input, db, calls>>

NextInsights == GetPerformanceInsights

SpecInsights == InitInsights /\ [][NextInsights]_vars

InsightsDone == op = "analyzePerformanceInsights"

OneOfEach ==
  /\ \E i \in 1..Len(result.insights) : result.insights[i].type = "POSITIVE"
  /\ \E i \in 1..Len(result.insights) : result.insights[i].type = "CONSTRUCTIVE"

\* C10 as stated: for every trade list and plan, the insights returned by
\* analyzePerformanceInsights contain at least one insight of type POSITIVE
\* and at least one of type CONSTRUCTIVE.
C10_AsStated == InsightsDone => OneOfEach

\* C10 (as the code has it): with at least one trade in the period and a
\* plan the insights contain at least one POSITIVE and at least one
\* CONSTRUCTIVE insight; with no trade in the period or no plan they are a
\* single CONSTRUCTIVE insight and no POSITIVE one.
C10_OneOfEachWithData ==
  InsightsDone =>
    IF Len(PeriodTrades) > 0 /\ plan # NoPlan
    THEN OneOfEach
    ELSE /\ Len(result.insights) = 1
         /\ result.insights[1].type = "CONSTRUCTIVE"

\* insights with both generic items have been produced from trades and a plan
C10_Witness ==
  /\ InsightsDone
  /\ Len(PeriodTrades) > 0 /\ plan # NoPlan
  /\ Len(result.insights) = 2
  /\ result.insights[1].title = "Consistent practice"
  /\ result.insights[2].title = "Refine exits"

-----------------------------------------------------------------------------
(* State history: the service's getStateHistory over the stored trades,    *)
(* the plan and the filter                                                 *)

\* longest list of stored trades
MaxHistoryLen == 5

\* largest limit of a request
MaxLimit == 3

\* a win inside the plan a day after the previous entry, an oversized loss
\* outside the sessions an hour after, and a breakeven early exit without
\* risk ten hours after
HistoryKinds ==
  { Kind(100, Some(15), Some(20), Some(100), "LONDON", FALSE, FALSE, <<char>>, 1440, 30),
    Kind(-50, Some(30), Null, Some(0), "ASIA", TRUE, FALSE, << >>, 60, 30),
    Kind(0, Null, Some(0), Some(85), "NY", FALSE, TRUE, << >>, 600, 30) }

\* Trade.find(query).sort({ entryTime: -1 }).limit(limit * 2); startDate and
\* endDate are << >> (absent) or <<time>>
QueryHistory(stored, startDate, endDate, limit) ==
  Slice(SelectSeq(stored,
                  LAMBDA t : /\ (startDate = << >> \/ t.entryTime >= startDate[1])
                             /\ (endDate = << >> \/ t.entryTime <= endDate[1])),
        0, limit * 2)

\* input.fetched is the array the query returns, as the handler holds it
InitHistory ==
  /\ \E ks \in ListsUpTo(HistoryKinds, MaxHistoryLen) : trades = Fetched(ks, 0)
  /\ plan \in {ExamplePlan, Plan(15, 1, 20, {"LONDON"}), NoPlan}
  /\ \E limit \in 1..MaxLimit, startDate \in {Null, Some(60)},
        endDate \in {Null, Some(1500)} :
       input = [limit |-> limit, startDate |-> startDate, endDate |-> endDate,
                fetched |-> QueryHistory(trades, startDate, endDate, limit)]
  /\ op = "none"
  /\ result = NoResult
  /\ db = NoDb
  /\ calls = NoCalls

GetStateHistory ==
  /\ op = "none"
  /\ op' = "analyzeStateHistory"
  /\ result' = analyzeStateHistory(input.fetched, plan, input.limit)
  /\ input' = [input EXCEPT !.fetched = TradesAfterHistory(input.fetched, plan)]
  /\ UNCHANGED <<trades, plan, db, calls>>

NextHistory == GetStateHistory

SpecHistory == InitHistory /\ [][NextHistory]_vars

\* the history has been computed from at least one trade and a plan
HistoryDone ==
  /\ op = "analyzeStateHistory"
  /\ plan # NoPlan
  /\ Len(input.fetched) > 0

\* the trades handed to analyzeStateHistory in ascending entryTime order
Ascending ==
  SortByEntry(QueryHistory(trades, input.startDate, input.endDate, input.limit))

\* the points emitted before the i-th trade of Ascending
PointsBefore(i) ==
  SelectSeq(result.history, LAMBDA h : h.timestamp < Ascending[i].entryTime)

\* a point is emitted at the i-th trade of Ascending
EmittedAt(i) ==
  \E k \in 1..Len(result.history) :
    result.history[k].timestamp = Ascending[i].entryTime

\* the state classified for the window trades[max(0, i-4)..i] (i from 0),
\* at the i-th trade of Ascending (i from 1)
WindowState(i) ==
  analyzePsychologicalState(Slice(Ascending, Max(0, i - 5), i), plan)

\* C11: walking the trades in ascending entryTime order (while fewer than
\* `limit` points are emitted), a history point is emitted at trade i exactly
\* when no point has been emitted yet, or the state classified for the
\* window trades[max(0,i-4)..i] differs from the state of the last emitted
\* point, or its confidence differs from that point's confidence by more
\* than 15; so any two consecutive emitted points differ in state or by
\* more than 15 in confidence.
C11_EmissionRule ==
  HistoryDone =>
    /\ \A i \in 1..Len(Ascending) :
         Len(PointsBefore(i)) < input.limit =>
           LET before == PointsBefore(i)
               last == before[Len(before)]
           IN /\ EmittedAt(i) <=>
                   \/ before = << >>
                   \/ last.state # WindowState(i).state
                   \/ last.confidence - WindowState(i).confidence > 15
                   \/ WindowState(i).confidence - last.confidence > 15
              /\ EmittedAt(i) =>
                   \E k \in 1..Len(result.history) :
                     /\ result.history[k].timestamp = Ascending[i].entryTime
                     /\ result.history[k].state = WindowState(i).state
                     /\ result.history[k].confidence = WindowState(i).confidence
    /\ \A k \in 2..Len(result.history) :
         \/ result.history[k].state # result.history[k - 1].state
         \/ result.history[k].confidence - result.history[k - 1].confidence > 15
         \/ result.history[k - 1].confidence - result.history[k].confidence > 15

\* a history in which one point was emitted for a change of state, one for
\* a change of confidence alone, and one trade was passed over
C11_Witness ==
  /\ HistoryDone
  /\ \E k \in 2..Len(result.history) :
       result.history[k].state # result.history[k - 1].state
  /\ \E k \in 2..Len(result.history) :
       result.history[k].state = result.history[k - 1].state
  /\ \E i \in 1..Len(Ascending) :
       Len(PointsBefore(i)) < input.limit /\ ~ EmittedAt(i)

\* the position in Ascending of the trade of the last returned point
LastPointIndex ==
  CHOOSE i \in 1..Len(Ascending) :
    Ascending[i].entryTime = result.history[Len(result.history)].timestamp

\* C12: analyzeStateHistory returns at most `limit` history points, no trade
\* after the limit-th emitted point is classified (the result is the one
\* computed from the trades up to that point alone), summary.totalChanges
\* equals the number of returned points, and with no trades the history is
\* empty with totalChanges 0.
C12_LimitRespected ==
  op = "analyzeStateHistory" =>
    /\ Len(result.history) <= input.limit
    /\ result.summary.totalChanges = Len(result.history)
    /\ Len(input.fetched) = 0 =>
         result.history = << >> /\ result.summary.totalChanges = 0
    /\ (HistoryDone /\ Len(result.history) = input.limit) =>
         result = analyzeStateHistory(SubSeq(Ascending, 1, LastPointIndex),
                                      plan, input.limit)

\* the limit-th point is emitted before the last trade, and a larger limit
\* would have given a further point
C12_Witness ==
  /\ HistoryDone
  /\ Len(result.history) = input.limit
  /\ input.limit >= 2
  /\ LastPointIndex < Len(Ascending)
  /\ Len(analyzeStateHistory(Ascending, plan, input.limit + 1).history) > input.limit

\* the states of the returned points, in the order of emission
EmittedStates == [k \in 1..Len(result.history) |-> result.history[k].state]

\* the number of returned points with state st
EmittedCount(st) == Cardinality({k \in 1..Len(EmittedStates) : EmittedStates[k] = st})

\* the position of the first returned point with state st
FirstEmitted(st) ==
  CHOOSE k \in 1..Len(EmittedStates) :
    EmittedStates[k] = st /\ \A j \in 1..(k - 1) : EmittedStates[j] # st

\* the states with the highest count among the returned points
TopStates ==
  {EmittedStates[k] : k \in {j \in 1..Len(EmittedStates) :
     \A i \in 1..Len(EmittedStates) :
       EmittedCount(EmittedStates[i]) <= EmittedCount(EmittedStates[j])}}

\* C13 (as the code has it): summary.mostCommonState is a state with the
\* highest count among the emitted history points, and when several states
\* share the highest count it is the one of them whose first point was
\* emitted last.
C13_MostCommonState ==
  (HistoryDone /\ Len(result.history) > 0) =>
    /\ result.summary.mostCommonState \in TopStates
    /\ \A st \in TopStates :
         FirstEmitted(st) <= FirstEmitted(result.summary.mostCommonState)

\* C13 as stated: among the states sharing the highest count it is the one
\* that was emitted first.
C13_AsStated ==
  (HistoryDone /\ Len(result.history) > 0) =>
    /\ result.summary.mostCommonState \in TopStates
    /\ \A st \in TopStates :
         FirstEmitted(result.summary.mostCommonState) <= FirstEmitted(st)

\* two states share the highest count, and the one reported is not the one
\* emitted first
C13_Witness ==
  /\ HistoryDone
  /\ Len(result.history) >= 2
  /\ Cardinality(TopStates) = 2
  /\ \A st \in TopStates : FirstEmitted(st) <= FirstEmitted(result.summary.mostCommonState)
  /\ EmittedStates[1] # result.summary.mostCommonState

\* C17 as stated: after a call of analyzeStateHistory the caller's trade
\* list has the same elements in the same order as before the call.
C17_AsStated ==
  op = "analyzeStateHistory" =>
    input.fetched = QueryHistory(trades, input.startDate, input.endDate, input.limit)

-----------------------------------------------------------------------------
(* Session forecast: the service's getSessionForecast over the stored      *)
(* trades, the plan and the requested session                              *)

\* longest list of stored trades
MaxForecastLen == 4

\* in LONDON a loss and a breakeven trade within the planned risk and an
\* oversized win; in NY a win without risk and a loss within the planned risk
ForecastKinds ==
  { Kind(-20, Some(15), Null, Null, "LONDON", TRUE, FALSE, << >>, 120, 30),
    Kind(0, Some(15), Some(0), Some(0), "LONDON", FALSE, FALSE, << >>, 120, 30),
    Kind(60, Some(30), Some(20), Some(100), "LONDON", FALSE, FALSE, << >>, 120, 30),
    Kind(40, Null, Some(20), Some(100), "NY", FALSE, FALSE, << >>, 120, 30),
    Kind(-20, Some(15), Null, Null, "NY", TRUE, FALSE, << >>, 120, 30) }

InitForecast ==
  /\ \E ks \in ListsUpTo(ForecastKinds, MaxForecastLen) : trades = Fetched(ks, 540)
  /\ plan \in {ExamplePlan, Plan(15, 1, 20, {"LONDON"}), Plan(0, 0, 0, {}), NoPlan}
  /\ input \in {[session |-> Null], [session |-> Some("LONDON")],
                [session |-> Some("NY")]}
  /\ op = "none"
  /\ result = NoResult
  /\ db = NoDb
  /\ calls = NoCalls

\* Trade.find({ userId, session }).sort({ entryTime: -1 }).limit(20)
SessionTrades ==
  Slice(SelectSeq(trades,
                  LAMBDA t : t.session =
                    ToUpperCase(IF input.session = << >> THEN "LONDON"
                                ELSE input.session[1])),
        0, 20)

GetSessionForecast ==
  /\ op = "none"
  /\ op' = "analyzeSessionForecast"
  /\ result' = analyzeSessionForecast(
                 SessionTrades, input.session, plan,
                 Some(analyzePsychologicalState(Slice(trades, 0, 10), plan)))
  /\ UNCHANGED <<trades, plan, input, db, calls>>

NextForecast == GetSessionForecast

SpecForecast == InitForecast /\ [][NextForecast]_vars

ForecastDone == op = "analyzeSessionForecast"

\* the 3 most recent session trades exist and none of them made a profit
NoProfitInLastThree ==
  /\ Len(SessionTrades) >= 3
  /\ \A i \in 1..3 : SessionTrades[i].profitLoss <= 0

\* the 3 most recent session trades exist and all of them lost money
LossInLastThree ==
  /\ Len(SessionTrades) >= 3
  /\ \A i \in 1..3 : SessionTrades[i].profitLoss < 0

\* the average of the non-null risks exceeds 1.25 x plan risk (in tenths:
\* 100 * sum > 125 * planRisk * count)
RiskAbovePlan ==
  LET risks == {i \in 1..Len(SessionTrades) : SessionTrades[i].riskPercentUsed # << >>}
      RECURSIVE Total(_)
      Total(I) == IF I = {} THEN 0
                  ELSE LET i == CHOOSE j \in I : TRUE
                       IN SessionTrades[i].riskPercentUsed[1] + Total(I \ {i})
  IN risks # {} /\ 100 * Total(risks) > 125 * plan.riskPercentPerTrade * Cardinality(risks)

\* at least a fifth of the session trades are outside the preferred sessions
OutsideSessions ==
  5 * Cardinality({i \in 1..Len(SessionTrades) :
                     SessionTrades[i].session \notin plan.preferredSessions})
    >= Len(SessionTrades)

HasRecommendation(text) ==
  \E k \in 1..Len(result.recommendations) : result.recommendations[k] = text

\* what C14 says apart from the streak: the two other flags, the forecast
\* label and the fallback
ForecastRules(streak) ==
  IF Len(SessionTrades) > 0 /\ plan # NoPlan
  THEN /\ result.riskLevel = "HIGH" <=> (streak \/ RiskAbovePlan)
       /\ HasRecommendation("Consider pausing before new entries; reset after losses")
            <=> streak
       /\ HasRecommendation("Reduce risk per trade to plan level") <=> RiskAbovePlan
       /\ HasRecommendation("Trade only in preferred sessions for this period")
            <=> OutsideSessions
       /\ result.forecast = "NEGATIVE" <=> result.riskLevel = "HIGH"
       /\ result.forecast = "POSITIVE" <=> result.riskLevel = "LOW"
       /\ result.forecast \in {"NEGATIVE", "POSITIVE", "NEUTRAL"}
  ELSE /\ result.forecast = "NEUTRAL"
       /\ result.riskLevel = "MEDIUM"
       /\ result.recommendations =
            <<"Log more trades in this session to improve forecast">>

C29_NeverLowNeverPositive ==
  ForecastDone =>
    /\ result.riskLevel \in {"MEDIUM", "HIGH"}
    /\ result.forecast \in {"NEUTRAL", "NEGATIVE"}

\* the most favourable session: trades, a plan and none of the three flags
C29_Witness ==
  /\ ForecastDone
  /\ Len(SessionTrades) >= 3 /\ plan # NoPlan
  /\ ~ NoProfitInLastThree /\ ~ RiskAbovePlan /\ ~ OutsideSessions
  /\ result.predictedBias = "NEUTRAL"
  /\ result.riskLevel = "MEDIUM" /\ result.forecast = "NEUTRAL"

-----------------------------------------------------------------------------
(* Consistency trend                                                       *)

\* longest trade list handed to the consistency trend
MaxTrendLen == 4

\* a disciplined winner on the next day, an oversized losing re-entry on the
\* same day, a next-day loser without risk data cut short, and a disciplined
\* winner three days later
TrendKinds ==
  { Kind(100, Some(15), Some(25), Some(100), "LONDON", FALSE, FALSE, <<char>>, 1440, 60),
    Kind(-50, Some(45), Null, Null, "ASIA", TRUE, TRUE, << >>, 70, 30),
    Kind(-40, Null, Some(0), Some(0), "ASIA", TRUE, TRUE, << >>, 1440, 30),
    Kind(100, Some(15), Some(25), Some(100), "NY", FALSE, FALSE, <<char>>, 4320, 60) }

DaysOptions == {"7", "10", "20", "all"}

\* the first trade enters at 09:00 of day 0; the request comes an hour after
\* the last entry
InitTrend ==
  /\ \E ks \in ListsUpTo(TrendKinds, MaxTrendLen) :
       /\ trades = Chrono(ks, 540)
       /\ \E days \in DaysOptions :
            input = [days |-> days,
                     now |-> IF ks = << >> THEN 600 ELSE trades[Len(trades)].entryTime + 60]
  /\ plan \in {ExamplePlan, NoPlan}
  /\ op = "none"
  /\ result = NoResult
  /\ db = NoDb
  /\ calls = NoCalls

CalculateConsistencyTrend ==
  /\ op = "none"
  /\ op' = "calculateConsistencyTrend"
  /\ result' = calculateConsistencyTrend(trades, plan, input.days, input.now)
  /\ UNCHANGED <<trades, plan, input, db, calls>>

NextTrend == CalculateConsistencyTrend

SpecTrend == InitTrend /\ [][NextTrend]_vars

TrendDone == op = "calculateConsistencyTrend"

\* (sum of the scores after the first `half`) / (their number) minus
\* (sum of the first `half` scores) / half, times half * (n - half)
HalvesDifference(half) ==
  LET n == Len(result.trend)
      firstSum == SumSeq([k \in 1..half |-> result.trend[k].score])
      secondSum == SumSeq([k \in 1..(n - half) |-> result.trend[half + k].score])
  IN secondSum * half - firstSum * (n - half)

DirectionOfHalves ==
  LET n == Len(result.trend)
      half == n \div 2
  IN IF HalvesDifference(half) > 5 * half * (n - half) THEN "improving"
     ELSE IF HalvesDifference(half) < -5 * half * (n - half) THEN "deteriorating"
     ELSE "stable"

\* C16: with at least three daily scores the trend direction is 'improving'
\* when the average of the scores after the first floor(n/2) exceeds the
\* average of the first floor(n/2) scores by more than 5, 'deteriorating' when
\* it is lower by more than 5, and 'stable' otherwise; with fewer than three
\* daily scores the direction is always 'stable'.
C16_TrendDirection ==
  TrendDone =>
    result.summary.trendDirection =
      (IF Len(result.trend) >= 3 THEN DirectionOfHalves ELSE "stable")

\* C16 as the specification words it: the halves decide the direction
\* whenever both halves hold a score.
C16_AsStated ==
  (TrendDone /\ Len(result.trend) >= 2) =>
    result.summary.trendDirection = DirectionOfHalves

C16_Witness ==
  /\ TrendDone
  /\ Len(result.trend) >= 3
  /\ result.summary.trendDirection = "improving"
  /\ HalvesDifference(Len(result.trend) \div 2)
       > 5 * (Len(result.trend) \div 2) * (Len(result.trend) - Len(result.trend) \div 2)

-----------------------------------------------------------------------------
(* Plans without preferred sessions, under SpecState                       *)

\* C15 as stated: when the plan's preferredSessions set is empty, no trade
\* counts as outside the preferred sessions: calculateDayMetrics yields
\* outsideSessionDays = 0, so the session condition never makes the state
\* OVEREXTENDED (no session indicator is reported).
C15_AsStated ==
  (StateDone /\ plan # NoPlan /\ Len(trades) > 0) =>
    (plan.preferredSessions = {} =>
       /\ calculateDayMetrics(Slice(trades, 0, 10), plan).outsideSessionDays = 0
       /\ \A k \in 1..Len(result.indicators) :
            result.indicators[k].category # "session")

-----------------------------------------------------------------------------
(* services/tradingPlan.service.js: the plan of a user                     *)

\* most requests issued in one behaviour
MaxCalls == 3

PlanUsers == {"u1", "u2"}

\* request bodies: every field is required by the validation; the model
\* carries four of the five fields
PlanBodies ==
  { ExamplePlan, Plan(15, 3, 20, {"LONDON", "NY"}), Plan(10, 3, 30, {"ASIA"}) }

\* the documents TradingPlan.findOne({ userId }) can return
PlansOf(userId) == {d \in db.tradingPlans : d.userId = userId}

\* Object.assign(tradingPlan, tradingPlanBody) marks as modified the paths
\* whose value changes; save() writes those paths only
ModifiedPaths(tradingPlan, tradingPlanBody) ==
  {f \in DOMAIN tradingPlanBody : tradingPlan.fields[f] # tradingPlanBody[f]}

\* the stored document after the update save() sends
Updated(stored, paths, tradingPlanBody) ==
  [stored EXCEPT !.fields =
     [f \in DOMAIN stored.fields |->
        IF f \in paths THEN tradingPlanBody[f] ELSE stored.fields[f]]]

\* a request in flight: its function, arguments, position and the local
\* variable tradingPlan
Call(fn, userId, body) ==
  [fn |-> fn, userId |-> userId, body |-> body, pc |-> "findOne", tradingPlan |-> Null]

Moved(c, pc, tradingPlan) ==
  [calls EXCEPT ![c] = [calls[c] EXCEPT !.pc = pc, !.tradingPlan = tradingPlan]]

InitPlan ==
  /\ db \in { [tradingPlans |-> {}],
              [tradingPlans |-> {[id |-> 0, userId |-> "u1", fields |-> ExamplePlan]}] }
  /\ calls = << >>
  /\ trades = << >>
  /\ plan = NoPlan
  /\ input = NoInput
  /\ op = "none"
  /\ result = NoResult

\* the controller calls the service; it runs up to its first await
CallCreateOrUpdateTradingPlan ==
  /\ Len(calls) < MaxCalls
  /\ \E userId \in PlanUsers, tradingPlanBody \in PlanBodies :
       calls' = Append(calls, Call("createOrUpdateTradingPlan", userId, tradingPlanBody))
  /\ UNCHANGED <<trades, plan, input, op, result, db>>

\* line 18, and the branch at line 20
CreateOrUpdate_FindOne ==
  \E c \in 1..Len(calls) :
    /\ calls[c].fn = "createOrUpdateTradingPlan"
    /\ calls[c].pc = "findOne"
    /\ IF PlansOf(calls[c].userId) = {}
       THEN calls' = Moved(c, "saveNew", Null)
       ELSE \E tradingPlan \in PlansOf(calls[c].userId) :
              calls' = Moved(c, "save", Some(tradingPlan))
    /\ UNCHANGED <<trades, plan, input, op, result, db>>

\* lines 22-24: save() of a loaded document updates the stored document of
\* the same _id and fails when there is none any more
CreateOrUpdate_Save ==
  \E c \in 1..Len(calls) :
    /\ calls[c].fn = "createOrUpdateTradingPlan"
    /\ calls[c].pc = "save"
    /\ LET tradingPlan == calls[c].tradingPlan[1]
           stored == {d \in db.tradingPlans : d.id = tradingPlan.id}
           paths == ModifiedPaths(tradingPlan, calls[c].body)
       IN IF stored = {}
          THEN /\ calls' = Moved(c, "failed", calls[c].tradingPlan)
               /\ result' = [error |-> "DocumentNotFoundError"]
               /\ UNCHANGED db
          ELSE /\ calls' = Moved(c, "done", calls[c].tradingPlan)
               /\ result' = [userId |-> calls[c].userId, fields |-> calls[c].body]
               /\ db' = [db EXCEPT !.tradingPlans =
                           {IF d.id = tradingPlan.id
                            THEN Updated(d, paths, calls[c].body) ELSE d : d \in @}]
    /\ op' = "createOrUpdateTradingPlan"
    /\ UNCHANGED <<trades, plan, input>>

\* lines 27-32: save() of a new document inserts it under a fresh _id
CreateOrUpdate_SaveNew ==
  \E c \in 1..Len(calls) :
    /\ calls[c].fn = "createOrUpdateTradingPlan"
    /\ calls[c].pc = "saveNew"
    /\ calls' = Moved(c, "done", Null)
    /\ db' = [db EXCEPT !.tradingPlans =
                @ \cup {[id |-> c, userId |-> calls[c].userId, fields |-> calls[c].body]}]
    /\ op' = "createOrUpdateTradingPlan"
    /\ result' = [userId |-> calls[c].userId, fields |-> calls[c].body]
    /\ UNCHANGED <<trades, plan, input>>

CallDeleteTradingPlanByUserId ==
  /\ Len(calls) < MaxCalls
  /\ \E userId \in PlanUsers :
       calls' = Append(calls, Call("deleteTradingPlanByUserId", userId, NoInput))
  /\ UNCHANGED <<trades, plan, input, op, result, db>>

\* lines 54-58
Delete_FindOne ==
  \E c \in 1..Len(calls) :
    /\ calls[c].fn = "deleteTradingPlanByUserId"
    /\ calls[c].pc = "findOne"
    /\ IF PlansOf(calls[c].userId) = {}
       THEN /\ calls' = Moved(c, "failed", Null)
            /\ op' = "deleteTradingPlanByUserId"
            /\ result' = [error |-> "Trading plan not found"]
       ELSE /\ \E tradingPlan \in PlansOf(calls[c].userId) :
                 calls' = Moved(c, "remove", Some(tradingPlan))
            /\ UNCHANGED <<op, result>>
    /\ UNCHANGED <<trades, plan, input, db>>

\* line 60
Delete_Remove ==
  \E c \in 1..Len(calls) :
    /\ calls[c].fn = "deleteTradingPlanByUserId"
    /\ calls[c].pc = "remove"
    /\ calls' = Moved(c, "done", calls[c].tradingPlan)
    /\ db' = [db EXCEPT !.tradingPlans = {d \in @ : d.id # calls[c].tradingPlan[1].id}]
    /\ op' = "deleteTradingPlanByUserId"
    /\ result' = [userId |-> calls[c].userId]
    /\ UNCHANGED <<trades, plan, input>>

NextPlan ==
  \/ CallCreateOrUpdateTradingPlan
  \/ CreateOrUpdate_FindOne
  \/ CreateOrUpdate_Save
  \/ CreateOrUpdate_SaveNew
  \/ CallDeleteTradingPlanByUserId
  \/ Delete_FindOne
  \/ Delete_Remove

SpecPlan == InitPlan /\ [][NextPlan]_vars

\* the last call to complete was a createOrUpdateTradingPlan that returned a plan
PlanSaved == op = "createOrUpdateTradingPlan" /\ "fields" \in DOMAIN result

\* C18 as the specification words it: at most one TradingPlan document per
\* user at any time, and once a createOrUpdateTradingPlan has completed the
\* user's plan holds the fields that call was given, until another call completes.
C18_AsStated ==
  /\ \A userId \in PlanUsers : Cardinality(PlansOf(userId)) <= 1
  /\ PlanSaved =>
       \E d \in PlansOf(result.userId) : d.fields = result.fields

-----------------------------------------------------------------------------
(* controllers/mt5.controller.js: MT5 account of a user                    *)
(* The requests of the user are handled one after another; db holds the   *)
(* user's document and the user's trades and history records.             *)

\* most Trade documents of the user
MaxTrades == 3

MT5Accounts == {"1001", "1002"}

MT5Passwords == {"pw1", "pw2"}

\* calendar days of trades, and the instants of new Date()
MT5Days == {1, 2}

\* config/encryption: what is stored is not the password
encrypt(password) == <<"aes", password>>

\* user.mt5Account of a user who never connected, and what disconnectMT5 writes
ClearedAccount ==
  [accountId |-> Null, server |-> Null, password |-> Null,
   isConnected |-> FALSE, lastSyncAt |-> Null]

\* userService.updateUserById(id, { mt5Account: {...} }): the nested object
\* is replaced, fields not given are unset, and the pre-save hook encrypts a
\* password that is set
updateUserById(mt5Account) ==
  [db EXCEPT !.user.mt5Account =
     [f \in DOMAIN ClearedAccount |->
        IF f \notin DOMAIN mt5Account THEN ClearedAccount[f]
        ELSE IF f = "password" /\ mt5Account[f] # Null
        THEN Some(encrypt(mt5Account[f][1]))
        ELSE mt5Account[f]]]

\* a guard that blocks the connected account instead of the other ones
BlocksConnection_SameAccount(mt5Account, accountId) ==
  mt5Account.isConnected /\ mt5Account.accountId = Some(accountId)

\* line 18 of connectMT5
BlocksConnection(mt5Account, accountId) ==
  mt5Account.isConnected /\ mt5Account.accountId # Some(accountId)

\* a filter that matches every trade of the user
MatchesAccount_AnyTrade(trade, mt5AccountId) == TRUE

\* the filter 'source.mt5AccountId': mt5AccountId of Trade.deleteMany
MatchesAccount(trade, mt5AccountId) == trade.source.mt5AccountId = Some(mt5AccountId)

\* _id of the n-th Trade document inserted by a request: the n-th unused id
NewTradeId(n) ==
  LET unused == (1..MaxTrades) \ {t.id : t \in db.trades}
  IN CHOOSE i \in unused : Cardinality({j \in unused : j < i}) = n - 1

\* the days of the history records after an upsert for each day in `days`
Upserted(history, days) == history \cup days

InitMT5 ==
  /\ db = [user |-> [mt5Account |-> ClearedAccount],
           trades |-> {}, heatmapHistory |-> {}, stabilityHistory |-> {}]
  /\ calls = NoCalls
  /\ trades = << >>
  /\ plan = NoPlan
  /\ input = NoInput
  /\ op = "none"
  /\ result = NoResult

\* POST /mt5/connect; `connects` is the answer of the MT5 service
ConnectMT5 ==
  \E accountId \in MT5Accounts, password \in MT5Passwords, connects \in BOOLEAN :
    LET user == db.user
    IN /\ op' = "connectMT5"
       /\ input' = [accountId |-> accountId, server |-> "broker", password |-> password,
                    user |-> user]
       /\ IF BlocksConnection(user.mt5Account, accountId)
          THEN /\ result' = [status |-> 409]
               /\ UNCHANGED db
          ELSE IF ~ connects
          THEN /\ result' = [status |-> 400]
               /\ UNCHANGED db
          ELSE /\ result' = [status |-> 200, accountId |-> accountId]
               /\ db' = updateUserById([accountId |-> Some(accountId),
                                        server |-> Some("broker"),
                                        password |-> Some(password),
                                        isConnected |-> TRUE])
       /\ UNCHANGED <<trades, plan, calls>>

\* POST /mt5/sync: the MT5 service returns one closed trade for each day of
\* `days`; createBulkTrades inserts them and upserts the history of their days
SyncTrades ==
  \E days \in SUBSET MT5Days, now \in MT5Days :
    LET user == db.user
    IN /\ Cardinality(db.trades) + Cardinality(days) <= MaxTrades
       /\ op' = "syncTrades"
       /\ input' = [user |-> user]
       /\ IF ~ user.mt5Account.isConnected \/ user.mt5Account.password = Null
          THEN /\ result' = [status |-> 400]
               /\ UNCHANGED db
          ELSE /\ result' = [status |-> 200, count |-> Cardinality(days)]
               /\ db' = [db EXCEPT
                           !.user.mt5Account.lastSyncAt = Some(now),
                           !.trades =
                             @ \cup {[id |-> NewTradeId(Cardinality({e \in days : e <= day})),
                                      day |-> day,
                                      source |-> [type |-> "mt5",
                                                  mt5AccountId |-> user.mt5Account.accountId]] :
                                       day \in days},
                           !.heatmapHistory = Upserted(@, days),
                           !.stabilityHistory = Upserted(@, days)]
       /\ UNCHANGED <<trades, plan, calls>>

\* POST /trades: a trade entered by hand, and the history of its day
CreateTrade ==
  \E day \in MT5Days :
    /\ Cardinality(db.trades) < MaxTrades
    /\ op' = "createTrade"
    /\ input' = [day |-> day]
    /\ result' = [status |-> 201]
    /\ db' = [db EXCEPT !.trades =
                          @ \cup {[id |-> NewTradeId(1), day |-> day,
                                   source |-> [type |-> "manual", mt5AccountId |-> Null]]},
                        !.heatmapHistory = Upserted(@, {day}),
                        !.stabilityHistory = Upserted(@, {day})]
    /\ UNCHANGED <<trades, plan, calls>>

\* POST /mt5/disconnect
DisconnectMT5 ==
  LET user == db.user
      mt5AccountId == user.mt5Account.accountId
      deleted == IF mt5AccountId = Null THEN {}
                 ELSE {t \in db.trades : MatchesAccount(t, mt5AccountId[1])}
  IN /\ op' = "disconnectMT5"
     /\ input' = [user |-> user, deletedCount |-> Cardinality(deleted)]
     /\ result' = [status |-> 200, deletedTrades |-> mt5AccountId # Null]
     /\ db' = [updateUserById(ClearedAccount) EXCEPT
                 !.trades = @ \ deleted,
                 !.heatmapHistory = IF mt5AccountId = Null THEN @ ELSE {},
                 !.stabilityHistory = IF mt5AccountId = Null THEN @ ELSE {}]
     /\ UNCHANGED <<trades, plan, calls>>

NextMT5 ==
  \/ ConnectMT5
  \/ SyncTrades
  \/ CreateTrade
  \/ DisconnectMT5

SpecMT5 == InitMT5 /\ [][NextMT5]_vars

ConnectedTo(store, accountId) ==
  store.user.mt5Account.isConnected /\ store.user.mt5Account.accountId = Some(accountId)

\* C19: when the user is connected to account A, a connectMT5 for another
\* account B is answered with 409 and leaves the stored mt5Account as it was,
\* and no request takes the user from connected to A straight to connected
\* to another account: that takes a disconnectMT5 in between.
C19_SingleAccount ==
  [][\A a \in MT5Accounts :
       ConnectedTo(db, a) =>
         /\ (op' = "connectMT5" /\ input'.accountId # a) =>
              (result'.status = 409 /\ db'.user.mt5Account = db.user.mt5Account)
         /\ \A b \in MT5Accounts \ {a} : ~ ConnectedTo(db', b)]_vars

C19_Witness ==
  /\ op = "connectMT5"
  /\ result.status = 409
  /\ \E a \in MT5Accounts : ConnectedTo(db, a) /\ input.accountId # a
  /\ db.user.mt5Account.lastSyncAt # Null

ManualTrades(store) == {t \in store.trades : t.source.type = "manual"}

\* C20: a disconnectMT5 of a user connected to account A leaves no trade
\* with source.mt5AccountId = A, no heatmap history record and no stability
\* history record, leaves mt5Account with isConnected false and accountId,
\* server, password and lastSyncAt null, and leaves the manual trades as
\* they were.
C20_DisconnectCleanup ==
  [][\A a \in MT5Accounts :
       (ConnectedTo(db, a) /\ op' = "disconnectMT5") =>
         /\ \A t \in db'.trades : t.source.mt5AccountId # Some(a)
         /\ db'.heatmapHistory = {}
         /\ db'.stabilityHistory = {}
         /\ db'.user.mt5Account = ClearedAccount
         /\ ManualTrades(db') = ManualTrades(db)]_vars

C20_Witness ==
  /\ op = "disconnectMT5"
  /\ input.user.mt5Account.isConnected
  /\ input.deletedCount > 0
  /\ ManualTrades(db) # {}
  /\ db.user.mt5Account = ClearedAccount

-----------------------------------------------------------------------------
(* Mental battery of a trading day                                         *)

\* longest list of today's trades
MaxBatteryLen == 5

\* an on-plan winner after a long pause, an oversized large loss cut short
\* 20 minutes after the previous entry, and a hesitant trade 45 minutes
\* after the previous entry
BatteryKinds ==
  { Kind(100, Some(15), Some(25), Some(100), "LONDON", FALSE, FALSE, <<char>>, 200, 30),
    Kind(-50, Some(45), Null, Null, "ASIA", TRUE, TRUE, << >>, 20, 10),
    Kind(20, Some(15), Some(20), Some(40), "NY", FALSE, FALSE, <<char>>, 45, 10) }

\* the first trade enters at 08:00
InitBattery ==
  /\ \E ks \in ListsUpTo(BatteryKinds, MaxBatteryLen) : trades = Fetched(ks, 480)
  /\ plan \in ScorePlans
  /\ input = NoInput
  /\ op = "none"
  /\ result = NoResult
  /\ db = NoDb
  /\ calls = NoCalls

SpecBattery == InitBattery /\ [][NextScores]_vars

BatteryDone == op = "calculateMentalBattery"

\* today's trades, oldest first
Today == SortByEntry(trades)

\* the plan risk in tenths; 1 (10 tenths) when the plan gives none
BatteryPlanRisk ==
  IF plan = NoPlan \/ plan.riskPercentPerTrade = 0 THEN 10 ELSE plan.riskPercentPerTrade

\* I: re-entries less than 30 minutes after the previous exit
Reentries ==
  Cardinality({i \in 2..Len(Today) :
                 /\ Today[i].entryTime - Today[i - 1].exitTime < 30
                 /\ Today[i].entryTime - Today[i - 1].exitTime >= 0})

\* O: trades with risk above 1.3 x plan risk
OversizedTrades ==
  Cardinality({i \in 1..Len(Today) :
                 /\ Today[i].riskPercentUsed # Null
                 /\ 10 * Today[i].riskPercentUsed[1] > 13 * BatteryPlanRisk})

\* the trades followed by two more entered within 2 hours of them
ClusterOpeners ==
  {i \in 1..Len(Today) :
     Cardinality({j \in (i + 1)..Len(Today) :
                    Today[j].entryTime - Today[i].entryTime <= 120}) >= 2}

\* C: runs of 3 trades entered within 2 hours, capped at 2
Clusters == IF Cardinality(ClusterOpeners) > 2 THEN 2 ELSE Cardinality(ClusterOpeners)

\* L: losses below -2 x plan risk
LargeLosses ==
  Cardinality({i \in 1..Len(Today) : Today[i].profitLoss < -2 * BatteryPlanRisk})

\* P: gaps of at least 2 hours between an exit and the next entry, capped at 3
Pauses ==
  LET n == Cardinality({i \in 2..Len(Today) :
                          Today[i].entryTime - Today[i - 1].exitTime >= 120})
  IN IF n > 3 THEN 3 ELSE n

\* V: an impulsive re-entry and a hesitation flag on the same day
Volatile ==
  /\ Len(Today) >= 2
  /\ Reentries > 0
  /\ \E i \in 1..Len(Today) :
       \/ Today[i].exitedEarly
       \/ Today[i].targetPercentAchieved \notin {Null, Some(0)}
            /\ Today[i].targetPercentAchieved[1] < 60

\* H: the plan control handed to the function is at least 80
HighCompliance == calculatePlanControl(Slice(trades, 0, 5), plan).percentage >= 80

\* S: every trade risks between 0.9 and 1.1 x plan risk
StableRisk ==
  \A i \in 1..Len(Today) :
    /\ Today[i].riskPercentUsed \notin {Null, Some(0)}
    /\ 10 * Today[i].riskPercentUsed[1] >= 9 * BatteryPlanRisk
    /\ 10 * Today[i].riskPercentUsed[1] <= 11 * BatteryPlanRisk

BatteryFormula ==
  100 - 15 * Reentries - 10 * OversizedTrades - 8 * Clusters - 20 * LargeLosses
      - (IF Volatile THEN 12 ELSE 0) + 5 * Pauses
      + (IF HighCompliance THEN 8 ELSE 0) + (IF StableRisk THEN 5 ELSE 0)

\* C22: calculateMentalBattery returns the battery
\* clamp(100 - 15 I - 10 O - 8 C - 20 L - 12 V + 5 P + 8 H + 5 S, 0, 100) of
\* the day's trades sorted by entry time, with status 'optimal' from 80,
\* 'strained' from 50 and 'high_risk' below, and battery 100 with status
\* 'optimal' when there is no trade.
C22_BatteryFormula ==
  BatteryDone =>
    /\ Len(trades) = 0 => result.battery = 100 /\ result.status = "optimal"
    /\ Len(trades) > 0 =>
         result.battery = (IF BatteryFormula < 0 THEN 0
                           ELSE IF BatteryFormula > 100 THEN 100 ELSE BatteryFormula)
    /\ result.status = "optimal" <=> result.battery >= 80
    /\ result.status = "strained" <=> (result.battery >= 50 /\ result.battery < 80)
    /\ result.status = "high_risk" <=> result.battery < 50

\* three runs of 3 trades within 2 hours count as 2 clusters
C22_Witness ==
  /\ BatteryDone
  /\ Cardinality(ClusterOpeners) = 3
  /\ Reentries = 0
  /\ result.battery = BatteryFormula
  /\ result.battery < 100

-----------------------------------------------------------------------------
(* Windows without target data, analysed by analyzePsychologicalState      *)

\* longest stored trade list without target data
MaxTargetLen == 6

\* on-plan trades a day apart: a loser and a winner without target data, and
\* a winner that reached its target
TargetKinds ==
  { Kind(-10, Some(15), Some(10), Null, "LONDON", TRUE, FALSE, <<char>>, 1440, 30),
    Kind(20, Some(15), Some(20), Null, "LONDON", FALSE, FALSE, <<char>>, 1440, 30),
    Kind(20, Some(15), Some(20), Some(100), "NY", FALSE, FALSE, <<char>>, 1440, 30) }

InitTargets ==
  /\ \E ks \in ListsUpTo(TargetKinds, MaxTargetLen) : trades = Fetched(ks, 540)
  /\ plan \in {ExamplePlan, Plan(15, 1, 20, {"LONDON"})}
  /\ input = NoInput
  /\ op = "none"
  /\ result = NoResult
  /\ db = NoDb
  /\ calls = NoCalls

SpecTargets == InitTargets /\ [][NextState]_vars

\* a non-empty window in which no trade has target data
NoTargetData ==
  /\ Len(trades) > 0
  /\ \A i \in 1..Len(trades) : trades[i].targetPercentAchieved = Null

\* the confidence with a signal strength made of the risk term and the
\* win-rate term only
ConfidenceWithoutTarget ==
  LET metrics == calculateBasicMetrics(trades)
      riskTerm == RAbs(RSub(RDiv(metrics.avgRiskUsed, RInt(plan.riskPercentPerTrade)),
                            RInt(1)))
      winTerm == RMul(RAbs(RSub(metrics.winRate, Rat(1, 2))), RInt(2))
      raw == RRound(RMul(RInt(100),
                         RAdd(RAdd(Rat(result.planAdherence, 200),
                                   Rat(3 * Min(Len(trades), 10), 100)),
                              RMul(Rat(2, 10), RMax(riskTerm, winTerm)))))
      confidence == Max(10, Min(95, raw))
  IN IF Len(trades) < 5 THEN Min(confidence, 40) ELSE confidence

\* C23 as the specification words it: in a window where every trade has
\* targetPercentAchieved = null the state is HESITANT only through the
\* early-exit condition, no target indicator is reported, and the
\* confidence is the one computed without the target term.
C23_AsStated ==
  (StateDone /\ NoTargetData) =>
    /\ result.state = "HESITANT" =>
         10 * calculateBasicMetrics(trades).earlyExits >= 4 * Len(trades)
    /\ \A k \in 1..Len(result.indicators) : result.indicators[k].category # "targets"
    /\ result.confidence = ConfidenceWithoutTarget

-----------------------------------------------------------------------------
(* Order of the windows of analyzeStateHistory                             *)

\* longest stored trade list of the order check
MaxOrderLen == 5

\* in-session winners a day apart that risk a third of the plan risk and
\* four thirds of it, and an on-plan loser
OrderKinds ==
  { Kind(20, Some(5), Some(20), Some(100), "LONDON", FALSE, FALSE, <<char>>, 1440, 30),
    Kind(20, Some(20), Some(20), Some(100), "LONDON", FALSE, FALSE, <<char>>, 1440, 30),
    Kind(-10, Some(15), Some(10), Some(100), "NY", TRUE, FALSE, <<char>>, 1440, 30) }

InitOrder ==
  /\ \E ks \in ListsUpTo(OrderKinds, MaxOrderLen) : trades = Fetched(ks, 540)
  /\ plan = ExamplePlan
  /\ \E limit \in 1..MaxLimit :
       input = [limit |-> limit, startDate |-> Null, endDate |-> Null,
                fetched |-> QueryHistory(trades, Null, Null, limit)]
  /\ op = "none"
  /\ result = NoResult
  /\ db = NoDb
  /\ calls = NoCalls

SpecOrder == InitOrder /\ [][NextHistory]_vars

\* the window trades[max(0, i-4)..i] of the i-th trade of Ascending (i from
\* 1), most recent trade first
WindowRecentFirst(i) == Reverse(Slice(Ascending, Max(0, i - 5), i))

\* C24 as the specification words it: the state and confidence of every
\* history point are those analyzePsychologicalState gives for the point's
\* window presented most recent first.
C24_AsStated ==
  op = "analyzeStateHistory" =>
    \A i \in 1..Len(Ascending) :
      \A k \in 1..Len(result.history) :
        result.history[k].timestamp = Ascending[i].entryTime =>
          /\ result.history[k].state =
               analyzePsychologicalState(WindowRecentFirst(i), plan).state
          /\ result.history[k].confidence =
               analyzePsychologicalState(WindowRecentFirst(i), plan).confidence

-----------------------------------------------------------------------------
(* zentra.service.js, getBreathworkSuggestion                              *)

\* longest stored trade list of the breathwork handler
MaxSuggestLen == 5

\* a trade at three times the plan risk, a profitable early exit short of
\* its target, and an on-plan winner the next day
SuggestKinds ==
  { Kind(-50, Some(45), Some(10), Some(100), "LONDON", TRUE, FALSE, <<char>>, 60, 20),
    Kind(20, Some(15), Some(10), Some(40), "NY", FALSE, TRUE, << >>, 40, 20),
    Kind(100, Some(15), Some(20), Some(100), "LONDON", FALSE, FALSE, <<char>>, 1440, 60) }

\* the request comes 10 or 100 minutes after the last entry
InitSuggest ==
  /\ \E ks \in ListsUpTo(SuggestKinds, MaxSuggestLen) :
       /\ trades = Fetched(ks, 540)
       /\ \E late \in {10, 100} :
            input = [now |-> (IF ks = << >> THEN 540 ELSE trades[1].entryTime) + late]
  /\ plan \in {ExamplePlan, NoPlan}
  /\ op = "none"
  /\ result = NoResult
  /\ db = NoDb
  /\ calls = NoCalls

\* Trade.find({ entryTime: { $gte: startOfToday } }).sort({ entryTime: -1 })
getTodayTrades(stored, now) ==
  SelectSeq(stored, LAMBDA t : t.entryTime >= DayKey(now) * 1440)

\* Trade.find().sort({ entryTime: -1 }).limit(limit)
getRecentTrades(stored, limit) == Slice(stored, 0, limit)

GetPsychologicalRadar ==
  /\ op = "none"
  /\ op' = "getPsychologicalRadar"
  /\ result' = calculatePsychologicalRadar(getRecentTrades(trades, 5), plan)
  /\ UNCHANGED <<trades, plan, input, db, calls>>

GetBreathworkSuggestion ==
  /\ op = "none"
  /\ op' = "getBreathworkSuggestion"
  /\ LET todayTrades == getTodayTrades(trades, input.now)
         recentTrades == getRecentTrades(trades, 5)
         planControlResult == calculatePlanControl(recentTrades, plan)
         batteryResult == calculateMentalBattery(todayTrades, plan, planControlResult.percentage)
         radarResult == calculatePsychologicalRadar(recentTrades, plan)
     IN result' = shouldSuggestBreathwork(batteryResult.battery,
                                          radarResult.traits.emotionalVolatility,
                                          todayTrades, Some(100), input.now)
  /\ UNCHANGED <<trades, plan, input, db, calls>>

NextSuggest ==
  \/ GetPsychologicalRadar
  \/ GetBreathworkSuggestion

SpecSuggest == InitSuggest /\ [][NextSuggest]_vars

\* C28: the emotionalVolatility trait of the radar is at most 50, and the
\* breathwork suggestion computed from it never carries the
\* 'high_volatility' trigger.
C28_VolatilityAtMostFifty ==
  /\ op = "getPsychologicalRadar" => result.traits.emotionalVolatility \in 0..50
  /\ op = "getBreathworkSuggestion" =>
       \A k \in 1..Len(result.triggers) : result.triggers[k] # "high_volatility"

\* the radar at its highest volatility: aggression 100 without hesitation
C28_Witness ==
  /\ op = "getPsychologicalRadar"
  /\ result.traits.aggression = 100
  /\ result.traits.hesitation = 0
  /\ result.traits.emotionalVolatility = 50

-----------------------------------------------------------------------------
(* Timing discipline and impulsive re-entry                                *)

\* the scored trades in the order in which both scorers pair them
Adjacent == SortByEntry(trades)

\* trade i of the sorted list enters before its predecessor has exited
EntersBeforeExit(i) == DiffMinutes(Adjacent[i], Adjacent[i - 1]) < 0

\* C30: for every pair of adjacent trades scored by plan control and by the
\* mental battery, hasTimingDiscipline is false exactly when
\* isImpulsiveReentry is true, a later trade entered before the earlier
\* one's exit included.
C30_AsStated ==
  op \in {"calculatePlanControl", "calculateMentalBattery"} =>
    \A i \in 2..Len(Adjacent) :
      ~ hasTimingDiscipline(Adjacent[i], Some(Adjacent[i - 1]))
        <=> isImpulsiveReentry(Adjacent[i], Adjacent[i - 1])

\* the two checks agree on every pair whose later trade enters at or after
\* the earlier one's exit
AgreeFromExitOn ==
  op \in {"calculatePlanControl", "calculateMentalBattery"} =>
    \A i \in 2..Len(Adjacent) :
      ~ EntersBeforeExit(i) =>
        (~ hasTimingDiscipline(Adjacent[i], Some(Adjacent[i - 1]))
           <=> isImpulsiveReentry(Adjacent[i], Adjacent[i - 1]))

-----------------------------------------------------------------------------
(* services/trade.service.js and the history collections                   *)

\* most Trade documents of the user at a time
MaxLedgerTrades == 2

\* the day on which the requests are made, and the time of new Date()
LedgerToday == 2

LedgerNow == LedgerToday * 1440 + 1200

\* the trade bodies a request may carry: an on-plan winner at 09:00 of
\* either day and an oversized loser cut short at 09:20 of day 1
LedgerBodies ==
  { MkTrade(Kind(100, Some(15), Some(25), Some(100), "LONDON", FALSE, FALSE, <<char>>, 0, 30), 1980),
    MkTrade(Kind(-50, Some(45), Null, Null, "NY", TRUE, TRUE, << >>, 0, 10), 2000),
    MkTrade(Kind(100, Some(15), Some(25), Some(100), "LONDON", FALSE, FALSE, <<char>>, 0, 30), 3420) }

\* a list of Trade documents without their _id and source, which no score reads
Bodies(ts) ==
  [i \in 1..Len(ts) |->
     [entryTime |-> ts[i].entryTime, exitTime |-> ts[i].exitTime,
      profitLoss |-> ts[i].profitLoss, riskPercentUsed |-> ts[i].riskPercentUsed,
      riskRewardAchieved |-> ts[i].riskRewardAchieved,
      targetPercentAchieved |-> ts[i].targetPercentAchieved,
      session |-> ts[i].session, stopLossHit |-> ts[i].stopLossHit,
      exitedEarly |-> ts[i].exitedEarly, notes |-> ts[i].notes]]

\* the bodies as requests carry them and as a move to the other day leaves them
StoredBodies ==
  LedgerBodies \cup
    {[b EXCEPT !.entryTime = @ + shift, !.exitTime = @ + shift] :
       b \in LedgerBodies, shift \in {-1440, 1440}}

\* consistencyTrend.calculateDailyScore(ts, plan) with the plan of the
\* ledger, computed once for every list of stored trades
DailyScores ==
  [ts \in ListsUpTo({b \in StoredBodies : DayKey(b.entryTime) \in {1, 2}},
                    MaxLedgerTrades) |-> calculateDailyScore(ts, ExamplePlan)]

DailyScoreOf(ts) ==
  IF plan = ExamplePlan /\ Bodies(ts) \in DOMAIN DailyScores
  THEN DailyScores[Bodies(ts)]
  ELSE calculateDailyScore(ts, plan)

\* Trade.find(filter) as a list in insertion order
RECURSIVE DocsById(_)
DocsById(S) ==
  IF S = {} THEN << >>
  ELSE LET t == CHOOSE x \in S : \A y \in S : x.id <= y.id
       IN <<t>> \o DocsById(S \ {t})

\* Trade.find({ entryTime: { $gte: startOfDay, $lte: endOfDay } })
\*   .sort({ entryTime: -1 })
getTradesForDate(store, targetDate) ==
  Reverse(SortByEntry(DocsById({t \in store.trades :
                                  DayKey(t.entryTime) = DayKey(targetDate)})))

\* Trade.find({ entryTime: { $gte: startDate, $lte: endDate } })
\*   .sort({ entryTime: -1 })
getTradesInRange(store, startDate, endDate) ==
  Reverse(SortByEntry(DocsById({t \in store.trades :
                                  t.entryTime >= startDate /\ t.entryTime <= endDate})))

\* the BehaviorHeatmapHistory document of a day (its insight text left out)
HeatmapDoc(dayDate, heatmapResult) ==
  [date |-> dayDate, windows |-> heatmapResult.windows,
   totalTrades |-> heatmapResult.totalTrades]

\* Model.updateOne({ userId, date }, doc, { upsert: true })
UpdateOneUpsert(history, doc) ==
  IF \E r \in history : r.date = doc.date
  THEN (history \ {CHOOSE r \in history : r.date = doc.date}) \cup {doc}
  ELSE history \cup {doc}

\* Model.deleteMany({ userId, date })
DeleteManyByDate(history, dayDate) == {r \in history : r.date # dayDate}

recalculateHistoryForDate(store, targetDate) ==
  LET dayDate == DayKey(targetDate)
      dayTrades == getTradesForDate(store, targetDate)
  IN IF Len(dayTrades) = 0
     THEN [store EXCEPT !.heatmapHistory = DeleteManyByDate(@, dayDate),
                        !.stabilityHistory = DeleteManyByDate(@, dayDate)]
     ELSE LET heatmapResult == calculateBehaviorHeatmap(dayTrades, plan)
              stabilityScore == DailyScoreOf(dayTrades)
          IN [store EXCEPT
                !.heatmapHistory = UpdateOneUpsert(@, HeatmapDoc(dayDate, heatmapResult)),
                !.stabilityHistory =
                  IF stabilityScore # Null
                  THEN UpdateOneUpsert(@, TrendPoint(dayDate, stabilityScore[1]))
                  ELSE DeleteManyByDate(@, dayDate)]

\* bulkWrite of one upsert for each day of the imported trades, each computed
\* from the imported trades of that day
RECURSIVE analyzeImportedDays(_, _, _)
analyzeImportedDays(store, imported, days) ==
  IF days = {} THEN store
  ELSE LET dayKey == CHOOSE d \in days : \A e \in days : d <= e
           dayTrades == SelectSeq(imported, LAMBDA t : DayKey(t.entryTime) = dayKey)
           heatmapResult == calculateBehaviorHeatmap(dayTrades, plan)
           stabilityScore == DailyScoreOf(dayTrades)
           upserted ==
             [store EXCEPT
                !.heatmapHistory = UpdateOneUpsert(@, HeatmapDoc(dayKey, heatmapResult)),
                !.stabilityHistory =
                  IF stabilityScore # Null
                  THEN UpdateOneUpsert(@, TrendPoint(dayKey, stabilityScore[1]))
                  ELSE @]
       IN analyzeImportedDays(upserted, imported, days \ {dayKey})

analyzeImportedTrades(store, imported) ==
  IF Len(imported) = 0 THEN store
  ELSE analyzeImportedDays(store, imported, TradeDays(imported))

\* the n-th unused _id of a store
UnusedId(store, n) ==
  LET unused == (1..(Cardinality(store.trades) + n)) \ {t.id : t \in store.trades}
  IN CHOOSE i \in unused : Cardinality({j \in unused : j < i}) = n - 1

\* a Trade document: the body, its _id and source
TradeDoc(tradeBody, id, source) ==
  [id |-> id, source |-> source, entryTime |-> tradeBody.entryTime,
   exitTime |-> tradeBody.exitTime, profitLoss |-> tradeBody.profitLoss,
   riskPercentUsed |-> tradeBody.riskPercentUsed,
   riskRewardAchieved |-> tradeBody.riskRewardAchieved,
   targetPercentAchieved |-> tradeBody.targetPercentAchieved,
   session |-> tradeBody.session, stopLossHit |-> tradeBody.stopLossHit,
   exitedEarly |-> tradeBody.exitedEarly, notes |-> tradeBody.notes]

ManualSource == [type |-> "manual", mt5AccountId |-> Null]

createTrade(store, tradeBody) ==
  LET trade == TradeDoc(tradeBody, UnusedId(store, 1), ManualSource)
  IN recalculateHistoryForDate([store EXCEPT !.trades = @ \cup {trade}], trade.entryTime)

\* tradesData is a list of bodies; source is the one the caller passes
createBulkTrades(store, tradesData, source) ==
  LET inserted == [i \in 1..Len(tradesData) |->
                     TradeDoc(tradesData[i], UnusedId(store, i), source)]
  IN analyzeImportedTrades(
       [store EXCEPT !.trades = @ \cup {inserted[i] : i \in 1..Len(inserted)}],
       inserted)

\* updateBody gives new entry and exit times; the trade exists
updateTradeById(store, tradeId, updateBody) ==
  LET trade == CHOOSE t \in store.trades : t.id = tradeId
      saved == [trade EXCEPT !.entryTime = updateBody.entryTime,
                             !.exitTime = updateBody.exitTime]
      stored == [store EXCEPT !.trades = (@ \ {trade}) \cup {saved}]
      recalculated == recalculateHistoryForDate(stored, saved.entryTime)
  IN IF trade.entryTime # saved.entryTime
     THEN recalculateHistoryForDate(recalculated, trade.entryTime)
     ELSE recalculated

deleteTradeById(store, tradeId) ==
  LET trade == CHOOSE t \in store.trades : t.id = tradeId
  IN recalculateHistoryForDate([store EXCEPT !.trades = @ \ {trade}], trade.entryTime)

\* Trade.deleteMany({ _id: { $in: tradeIds }, userId })
deleteBulkTrades(store, tradeIds) ==
  [store EXCEPT !.trades = {t \in @ : t.id \notin tradeIds}]

\* the store of a user without trades, as connectMT5 leaves it
InitLedger ==
  /\ db = [user |-> [mt5Account |->
                       [accountId |-> Some("1001"), server |-> Some("broker"),
                        password |-> Some(encrypt("pw1")), isConnected |-> TRUE,
                        lastSyncAt |-> Null]],
           trades |-> {}, heatmapHistory |-> {}, stabilityHistory |-> {}]
  /\ plan = ExamplePlan
  /\ calls = NoCalls
  /\ trades = << >>
  /\ input = NoInput
  /\ op = "none"
  /\ result = NoResult

\* POST /trades
PostTrade ==
  \E tradeBody \in LedgerBodies :
    /\ Cardinality(db.trades) < MaxLedgerTrades
    /\ op' = "createTrade"
    /\ input' = NoInput
    /\ result' = [status |-> 201]
    /\ db' = createTrade(db, tradeBody)
    /\ UNCHANGED <<trades, plan, calls>>

\* POST /trades/bulk
PostBulkTrades ==
  \E tradesData \in ListsUpTo(LedgerBodies, 2) :
    /\ Len(tradesData) > 0
    /\ Cardinality(db.trades) + Len(tradesData) <= MaxLedgerTrades
    /\ op' = "createBulkTrades"
    /\ input' = NoInput
    /\ result' = [status |-> 201]
    /\ db' = createBulkTrades(db, tradesData, ManualSource)
    /\ UNCHANGED <<trades, plan, calls>>

\* PUT /trades/:tradeId: the trade is moved to the other day
PutTrade ==
  \E tradeId \in 1..MaxLedgerTrades :
    /\ op' = "updateTradeById"
    /\ input' = NoInput
    /\ IF \E t \in db.trades : t.id = tradeId
       THEN LET trade == CHOOSE t \in db.trades : t.id = tradeId
                shift == IF DayKey(trade.entryTime) = 1 THEN 1440 ELSE -1440
            IN /\ result' = [status |-> 200]
               /\ db' = updateTradeById(
                          db, tradeId,
                          [entryTime |-> trade.entryTime + shift,
                           exitTime |-> trade.exitTime + shift])
       ELSE /\ result' = [status |-> 404]
            /\ UNCHANGED db
    /\ UNCHANGED <<trades, plan, calls>>

\* DELETE /trades/:tradeId
DeleteTrade ==
  \E tradeId \in 1..MaxLedgerTrades :
    /\ op' = "deleteTradeById"
    /\ input' = NoInput
    /\ IF \E t \in db.trades : t.id = tradeId
       THEN /\ result' = [status |-> 204]
            /\ db' = deleteTradeById(db, tradeId)
       ELSE /\ result' = [status |-> 404]
            /\ UNCHANGED db
    /\ UNCHANGED <<trades, plan, calls>>

\* DELETE /trades/bulk
DeleteBulkTrades ==
  \E tradeIds \in SUBSET (1..MaxLedgerTrades) :
    /\ tradeIds # {}
    /\ op' = "deleteBulkTrades"
    /\ input' = NoInput
    /\ result' = [status |-> 204]
    /\ db' = deleteBulkTrades(db, tradeIds)
    /\ UNCHANGED <<trades, plan, calls>>

\* POST /mt5/sync: the MT5 service returns the deals of `tradesData`
SyncMT5Trades ==
  \E tradesData \in ListsUpTo(LedgerBodies, 1) :
    LET user == db.user
        today == LedgerToday
    IN /\ Cardinality(db.trades) + Len(tradesData) <= MaxLedgerTrades
       /\ op' = "syncTrades"
       /\ input' = NoInput
       /\ IF ~ user.mt5Account.isConnected \/ user.mt5Account.password = Null
          THEN /\ result' = [status |-> 400]
               /\ UNCHANGED db
          ELSE /\ result' = [status |-> 200]
               /\ db' = [(IF Len(tradesData) = 0 THEN db
                          ELSE createBulkTrades(
                                 db, tradesData,
                                 [type |-> "mt5",
                                  mt5AccountId |-> user.mt5Account.accountId]))
                           EXCEPT !.user.mt5Account.lastSyncAt = Some(today)]
       /\ UNCHANGED <<trades, plan, calls>>

\* GET /zentra/heatmap
GetBehaviorHeatmap ==
    LET today == LedgerToday
        now == LedgerNow
        fetched == getTradesInRange(db, now - 30 * 1440, now)
        heatmapResult == calculateBehaviorHeatmap(fetched, plan)
    IN /\ op' = "getBehaviorHeatmap"
       /\ input' = NoInput
       /\ result' = [status |-> 200, totalTrades |-> heatmapResult.totalTrades]
       /\ db' = [db EXCEPT !.heatmapHistory =
                             UpdateOneUpsert(@, HeatmapDoc(today, heatmapResult))]
       /\ UNCHANGED <<trades, plan, calls>>

\* GET /zentra/consistency-trend?days=7
GetConsistencyTrend ==
    LET today == LedgerToday
        now == LedgerNow
        fetched == getTradesInRange(db, now - 7 * 1440, now)
        todayTrades == getTodayTrades(DocsById(db.trades), now)
        todayScore == DailyScoreOf(todayTrades)
    IN /\ op' = "getConsistencyTrend"
       /\ input' = NoInput
       /\ result' = [status |-> 200,
                     daysWithData |-> Cardinality(TradeDays(fetched))]
       /\ db' = [db EXCEPT !.stabilityHistory =
                             IF todayScore # Null
                             THEN UpdateOneUpsert(@, TrendPoint(today, todayScore[1]))
                             ELSE @]
       /\ UNCHANGED <<trades, plan, calls>>

\* the requests that change trades: the trade routes, the MT5 sync and the
\* MT5 disconnect
NextLedger ==
  \/ PostTrade
  \/ PostBulkTrades
  \/ PutTrade
  \/ DeleteTrade
  \/ DeleteBulkTrades
  \/ SyncMT5Trades
  \/ DisconnectMT5

SpecLedger == InitLedger /\ [][NextLedger]_vars

\* the trade routes and the two zentra reads that store a snapshot
NextSnapshot ==
  \/ PostTrade
  \/ PostBulkTrades
  \/ PutTrade
  \/ DeleteTrade
  \/ DeleteBulkTrades
  \/ GetBehaviorHeatmap
  \/ GetConsistencyTrend

SpecSnapshot == InitLedger /\ [][NextSnapshot]_vars

\* the days on which the user has a trade
TradeDates(store) == {DayKey(t.entryTime) : t \in store.trades}

\* the days that have a record in a history collection
RecordDates(history) == {r.date : r \in history}

\* no two records of a collection are of the same day
OneRecordPerDay ==
  /\ \A r, q \in db.heatmapHistory : r.date = q.date => r = q
  /\ \A r, q \in db.stabilityHistory : r.date = q.date => r = q

\* C25: after any sequence of completed createTrade, createBulkTrades,
\* updateTradeById, deleteTradeById, deleteBulkTrades and disconnectMT5
\* requests, a heatmap record and a stability record exist for a day exactly
\* when the user has a trade entered on that day, and there is at most one
\* record of each kind for a day.
C25_AsStated ==
  /\ RecordDates(db.heatmapHistory) = TradeDates(db)
  /\ RecordDates(db.stabilityHistory) = TradeDates(db)
  /\ OneRecordPerDay

\* the heatmap record of day D is the heatmap of the trades entered on D
HeatmapOfDay(day) ==
  \A r \in db.heatmapHistory :
    r.date = day =>
      r = HeatmapDoc(day, calculateBehaviorHeatmap(getTradesForDate(db, day * 1440), plan))

\* the stability record of day D is the daily score of the trades entered on D
StabilityOfDay(day) ==
  \A r \in db.stabilityHistory :
    r.date = day =>
      /\ getTradesForDate(db, day * 1440) # << >>
      /\ r = TrendPoint(day, DailyScoreOf(getTradesForDate(db, day * 1440))[1])

\* C26: after any sequence of trade-service requests and getBehaviorHeatmap /
\* getConsistencyTrend calls, the heatmap record of a day holds the heatmap of
\* exactly the trades entered on that day and the stability record holds
\* their daily score.
C26_AsStated ==
  \A day \in RecordDates(db.heatmapHistory) \cup RecordDates(db.stabilityHistory) :
    HeatmapOfDay(day) /\ StabilityOfDay(day)

\* the trade counts of the records alone: totalTrades and tradeCount are the
\* number of trades entered on the day
C26_TradeCounts ==
  /\ \A r \in db.heatmapHistory :
       r.totalTrades = Len(getTradesForDate(db, r.date * 1440))
  /\ \A r \in db.stabilityHistory :
       r.tradeCount = Len(getTradesForDate(db, r.date * 1440))

-----------------------------------------------------------------------------
(* middlewares/requireTradingPlan.js and the route tables                  *)

\* a table without the middleware on the MT5 router
RequiresTradingPlan_NotOnSync(route) ==
  route \in {"POST /trades", "GET /trades", "POST /trades/bulk", "DELETE /trades/bulk",
             "GET /trades/:tradeId", "PUT /trades/:tradeId", "DELETE /trades/:tradeId",
             "GET /analysis/state", "GET /analysis/forecast", "GET /analysis/insights",
             "GET /analysis/history", "GET /dashboard", "GET /dashboard/summary"}

\* the routes whose chain lists requireTradingPlan after auth()
RequiresTradingPlan(route) ==
  route \in {"POST /trades", "GET /trades", "POST /trades/bulk", "DELETE /trades/bulk",
             "GET /trades/:tradeId", "PUT /trades/:tradeId", "DELETE /trades/:tradeId",
             "GET /analysis/state", "GET /analysis/forecast", "GET /analysis/insights",
             "GET /analysis/history", "GET /dashboard", "GET /dashboard/summary",
             "POST /mt5/sync"}

\* the error passed to next(), or << >> for next()
requireTradingPlan(tradingPlan) ==
  IF tradingPlan = NoPlan
  THEN Some([status |-> 403,
             message |-> "Trading plan required. Please create a trading plan before accessing this resource.",
             reason |-> "TRADING_PLAN_REQUIRED"])
  ELSE Null

\* the error handler answers; the controller is not called
Rejected(error) ==
  /\ op' = "requireTradingPlan"
  /\ input' = NoInput
  /\ result' = error
  /\ UNCHANGED <<trades, plan, db, calls>>

\* a request to `route` by an authenticated user: the chain of the route,
\* then the controller
Request(route, Controller) ==
  IF RequiresTradingPlan(route) /\ requireTradingPlan(plan) # Null
  THEN Rejected(requireTradingPlan(plan)[1])
  ELSE Controller

\* a controller that reads and answers
Reads(route) ==
  /\ op' = route
  /\ input' = NoInput
  /\ result' = [status |-> 200]
  /\ UNCHANGED <<trades, plan, db, calls>>

\* a user without a plan, without trades, who never connected an account
InitGate ==
  /\ db = [user |-> [mt5Account |-> ClearedAccount],
           trades |-> {}, heatmapHistory |-> {}, stabilityHistory |-> {}]
  /\ plan = NoPlan
  /\ calls = NoCalls
  /\ trades = << >>
  /\ input = NoInput
  /\ op = "none"
  /\ result = NoResult

\* routes/v1/trade.route.js
TradeRoutes ==
  \/ Request("POST /trades", PostTrade)
  \/ Request("GET /trades", Reads("GET /trades"))
  \/ Request("POST /trades/bulk", PostBulkTrades)
  \/ Request("DELETE /trades/bulk", DeleteBulkTrades)
  \/ Request("PUT /trades/:tradeId", PutTrade)
  \/ Request("DELETE /trades/:tradeId", DeleteTrade)

\* routes/v1/analysis.route.js and dashboard.route.js: the current state and
\* the dashboard
ReadRoutes ==
  \/ Request("GET /analysis/state", Reads("GET /analysis/state"))
  \/ Request("GET /dashboard", Reads("GET /dashboard"))

\* the MT5 router; the user connects account 1001
MT5Routes ==
  \/ Request("POST /mt5/connect",
             ConnectMT5 /\ input'.accountId = "1001" /\ input'.password = "pw1")
  \/ Request("POST /mt5/sync", SyncMT5Trades)
  \/ Request("GET /mt5/status", Reads("GET /mt5/status"))
  \/ Request("DELETE /mt5/disconnect", DisconnectMT5)

\* the trading-plan router: POST with the example plan, GET and DELETE
TradingPlanRoutes ==
  \/ Request("POST /trading-plan",
             /\ op' = "createOrUpdateTradingPlan"
             /\ input' = NoInput
             /\ result' = [status |-> 200]
             /\ plan' = ExamplePlan
             /\ UNCHANGED <<trades, db, calls>>)
  \/ Request("GET /trading-plan", Reads("GET /trading-plan"))
  \/ Request("DELETE /trading-plan",
             /\ op' = "deleteTradingPlanByUserId"
             /\ input' = NoInput
             /\ result' = [status |-> IF plan = NoPlan THEN 404 ELSE 204]
             /\ plan' = NoPlan
             /\ UNCHANGED <<trades, db, calls>>)

NextGate ==
  \/ TradeRoutes
  \/ ReadRoutes
  \/ MT5Routes
  \/ TradingPlanRoutes

SpecGate == InitGate /\ [][NextGate]_vars

\* what the controllers behind requireTradingPlan leave in op
GuardedControllers ==
  {"createTrade", "createBulkTrades", "updateTradeById", "deleteTradeById",
   "deleteBulkTrades", "syncTrades", "GET /trades", "GET /analysis/state",
   "GET /dashboard"}

\* the controllers of the trading-plan routes and of MT5 connect, status and
\* disconnect
OpenControllers ==
  {"createOrUpdateTradingPlan", "deleteTradingPlanByUserId", "GET /trading-plan",
   "connectMT5", "GET /mt5/status", "disconnectMT5"}

-----------------------------------------------------------------------------
(* MT5 sync windows: syncTrades and connectMT5 over time                   *)

\* the clock is read at midnights 0..MaxSyncDay; the account closes one deal
\* at noon of each day before the last
MaxSyncDay == 3

\* most Trade documents stored
MaxSyncTrades == 5

\* the deals of the MT5 account, oldest first
SyncDeals ==
  [d \in 1..MaxSyncDay |->
     MkTrade(Kind(100, Some(15), Some(25), Some(100), "LONDON", FALSE, FALSE, <<char>>, 0, 30),
             (d - 1) * 1440 + 720)]

\* Date.now() - 30 * 24 * 60 * 60 * 1000
ThirtyDays == 30 * 1440

\* the Python service: the deals of the account between fromDate and toDate
fetchMT5Trades(deals, fromDate, toDate) ==
  SelectSeq(deals, LAMBDA t : t.entryTime >= fromDate /\ t.entryTime <= toDate)

\* a connected user who has not synced; firstFrom and lastTo record the
\* from-date of the first sync and the to-time of the last
InitSync ==
  /\ db = [user |-> [mt5Account |->
                       [accountId |-> Some("1001"), server |-> Some("broker"),
                        password |-> Some(encrypt("pw1")), isConnected |-> TRUE,
                        lastSyncAt |-> Null]],
           trades |-> {}, heatmapHistory |-> {}, stabilityHistory |-> {}]
  /\ trades = SyncDeals
  /\ input = [now |-> 0, firstFrom |-> Null, lastTo |-> Null]
  /\ plan = ExamplePlan
  /\ calls = NoCalls
  /\ op = "none"
  /\ result = NoResult

\* a day passes between two requests
DayPasses ==
  /\ input.now < MaxSyncDay * 1440
  /\ op' = "none"
  /\ input' = [input EXCEPT !.now = @ + 1440]
  /\ result' = NoResult
  /\ UNCHANGED <<trades, plan, db, calls>>

\* POST /mt5/sync; `elapsed` is the time between Date.now() of `to` and
\* new Date() of the lastSyncAt update
SyncTradesOverTime ==
  \E fromDate \in {Null, Some(1440)}, elapsed \in {0, 1440} :
    LET user == db.user
        from == IF user.mt5Account.lastSyncAt # Null THEN user.mt5Account.lastSyncAt[1]
                ELSE IF fromDate # Null THEN fromDate[1]
                ELSE input.now - ThirtyDays
        to == input.now
        mt5Trades == fetchMT5Trades(trades, from, to)
    IN /\ to + elapsed <= MaxSyncDay * 1440
       /\ Cardinality(db.trades) + Len(mt5Trades) <= MaxSyncTrades
       /\ user.mt5Account.isConnected /\ user.mt5Account.password # Null
       /\ op' = "syncTrades"
       /\ input' = [now |-> to + elapsed,
                    firstFrom |-> IF input.firstFrom = Null THEN Some(from)
                                  ELSE input.firstFrom,
                    lastTo |-> Some(to)]
       /\ result' = [status |-> 200, count |-> Len(mt5Trades)]
       /\ db' = [createBulkTrades(db, mt5Trades,
                                  [type |-> "mt5",
                                   mt5AccountId |-> user.mt5Account.accountId])
                   EXCEPT !.user.mt5Account.lastSyncAt = Some(to + elapsed)]
       /\ UNCHANGED <<trades, plan, calls>>

\* POST /mt5/connect for the account that is connected already
ConnectSameAccount ==
  /\ ~ BlocksConnection(db.user.mt5Account, "1001")
  /\ op' = "connectMT5"
  /\ result' = [status |-> 200, accountId |-> "1001"]
  /\ db' = updateUserById([accountId |-> Some("1001"), server |-> Some("broker"),
                           password |-> Some("pw1"), isConnected |-> TRUE])
  /\ UNCHANGED <<trades, plan, input, calls>>

NextSync ==
  \/ DayPasses
  \/ SyncTradesOverTime
  \/ ConnectSameAccount

SpecSync == InitSync /\ [][NextSync]_vars

\* the Trade documents that hold the deal closed at `time`
StoredDeal(time) == {t \in db.trades : t.entryTime = time}

\* the deals between the first sync's from-date and the last sync's to-time
DealsInSyncedSpan ==
  {i \in 1..Len(trades) :
     /\ input.firstFrom # Null
     /\ trades[i].entryTime >= input.firstFrom[1]
     /\ trades[i].entryTime <= input.lastTo[1]}

\* C27: across connectMT5 (to the same account) and syncTrades calls, every
\* deal between the first sync's from-date and the last sync's to-time is
\* stored as exactly one Trade: none is skipped and none is imported twice.
C27_AsStated ==
  \A i \in DealsInSyncedSpan : Cardinality(StoredDeal(trades[i].entryTime)) = 1

\* no deal of the synced span is missing
NoDealSkipped ==
  \A i \in DealsInSyncedSpan : StoredDeal(trades[i].entryTime) # {}

\* no deal is stored twice
NoDealTwice ==
  \A i \in 1..Len(trades) : Cardinality(StoredDeal(trades[i].entryTime)) <= 1

====
